---- MODULE Spec2Model ----
\* Widget tree, damage propagation, geometry and layout of the EGT widget core
\* (src/src/widget.cpp).  Every public operation of Widget is one action; the
\* synchronous call chain it starts (damage climbing to the screen owner, the
\* parent's layout pass, the nested child layouts) is computed by the
\* operators below and is part of that one action.
EXTENDS Integers, Sequences, FiniteSets, TLC

\* ------------------------------------------------------------------ bounds
\* Number of operations performed after construction.
MaxOps == 3
\* call frames the stack has room for: a deeper call chain ends the process
MaxDepth == 16

\* ------------------------------------------------------------ the widgets
\* Three widgets are constructed: widget 1 is a window (it owns a screen),
\* 2 and 3 are plain widgets.  0 stands for the null pointer.
Widgets == {1, 2, 3}
NoWidget == 0

\* --------------------------------------------------------------- geometry
Max(a, b) == IF a > b THEN a ELSE b
Min(a, b) == IF a < b THEN a ELSE b

Point(x, y) == [x |-> x, y |-> y]
Size(w, h) == [w |-> w, h |-> h]
Rect(x, y, w, h) == [x |-> x, y |-> y, w |-> w, h |-> h]
RectOf(p, sz) == [x |-> p.x, y |-> p.y, w |-> sz.w, h |-> sz.h]
PointOf(r) == [x |-> r.x, y |-> r.y]
SizeOf(r) == [w |-> r.w, h |-> r.h]

\* Size::empty / Rect::empty
SizeEmpty(sz) == sz.w <= 0 \/ sz.h <= 0
RectEmpty(r) == r.w <= 0 \/ r.h <= 0

\* Rect::intersection(lhs, rhs): the default (all zero) rect when disjoint
Intersection(a, b) ==
    LET x == Max(a.x, b.x)
        y == Max(a.y, b.y)
        w == Min(a.x + a.w, b.x + b.w) - x
        h == Min(a.y + a.h, b.y + b.h) - y
    IN  IF w < 0 \/ h < 0 THEN Rect(0, 0, 0, 0) ELSE Rect(x, y, w, h)

\* Rect::intersect(lhs, rhs): do the two rects overlap
Intersect(a, b) ==
    /\ a.x < b.x + b.w
    /\ a.x + a.w > b.x
    /\ a.y < b.y + b.h
    /\ a.y + a.h > b.y

\* Rect::merge(lhs, rhs): the bounding rect of both
Merge(a, b) ==
    LET x == Min(a.x, b.x)
        y == Min(a.y, b.y)
        xm == Max(a.x + a.w, b.x + b.w)
        ym == Max(a.y + a.h, b.y + b.h)
    IN  Rect(x, y, xm - x, ym - y)

\* Rect::contains: r lies inside outer
Contains(outer, r) ==
    /\ r.x >= outer.x
    /\ r.y >= outer.y
    /\ r.x + r.w <= outer.x + outer.w
    /\ r.y + r.h <= outer.y + outer.h

\* ------------------------------------------------------------------ state
VARIABLES
    alive,                  \* constructed and not yet destroyed
    m_parent,               \* Widget::m_parent (NoWidget = nullptr)
    m_children,             \* Widget::m_children, back = topmost
    m_box,                  \* Widget::m_box, in the parent's coordinates
    m_user_requested_box,   \* Widget::m_user_requested_box
    invisible,              \* Widget::Flag::invisible
    no_layout,              \* Widget::Flag::no_layout
    no_autoresize,          \* Widget::Flag::no_autoresize
    m_in_layout,            \* Widget::m_in_layout
    m_in_draw,              \* Widget::m_in_draw
    m_damage,               \* Widget::m_damage, the dirty rects of a screen owner
    disabled,               \* Widget::Flag::disabled
    readonly,               \* Widget::Flag::readonly
    active,                 \* Widget::Flag::active
    grab_mouse,             \* Widget::Flag::grab_mouse
    checked,                \* Widget::Flag::checked
    m_align,                \* Widget::m_align
    m_palette,              \* Widget::m_palette, the widget's own palette if any
    m_font,                 \* Widget::m_font, the widget's own font if any
    global_palette,         \* global_palette(): whether a process-wide palette is set
    global_font,            \* global_font(): whether a process-wide font is set
    keyboard_focus,         \* detail::keyboard_focus(), the process-wide holder
    mouse_grab,             \* detail::mouse_grab(), the process-wide holder
    sheet,                  \* the sprite sheet: image width, m_frame, the strip
    hw_index,               \* HardwareSprite::m_index
    sw_index,               \* SoftwareSprite::m_index
    plane,                  \* the overlay plane: pan registers written and applied
    ndebug,                 \* the build: TRUE when assert() is compiled out
    aborted,                \* the process was ended by a failed assert() or a crash
    nops                    \* number of operations performed

vars == <<alive, m_parent, m_children, m_box, m_user_requested_box, invisible,
          no_layout, no_autoresize, m_in_layout, m_in_draw, m_damage, disabled,
          readonly, active, grab_mouse, checked, m_align, m_palette, m_font,
          global_palette, global_font, keyboard_focus, mouse_grab, sheet,
          hw_index, sw_index, plane, ndebug, aborted, nops>>

\* The widgets as constructed.  has_screen() is true for a window only.
has_screen(w) == w = 1
\* Widget::plane_window(): the widget owns a hardware overlay plane
plane_window(w) == w = 4
\* margin() + padding() + border()
moat(w) == IF w = 2 THEN 0 ELSE 1
\* Widget::m_min_size; empty unless an explicit minimum was set
m_min_size(w) == IF w = 2 THEN Size(3, 1) ELSE Size(0, 0)
\* Widget::m_align as the widget is constructed
InitAlign(w) == IF w = 2 THEN {"expand"} ELSE IF w = 3 THEN {"left", "bottom"} ELSE {}
\* the box each widget is constructed with
InitBox(w) == IF w = 1 THEN Rect(0, 0, 4, 4)
              ELSE IF w = 2 THEN Rect(1, 1, 2, 2)
              ELSE Rect(0, 1, 1, 1)

NoRect == Rect(0, 0, 0, 0)

\* std::unique_ptr<Palette>: whether there is a palette, and the entries
\* <<id, group, pattern>> it holds
NoPalette == [set |-> FALSE, colors |-> {}]

\* One recorded call.  flag: for "damage" whether the widget was visible at the
\* call, for "layout" whether a pass of the same widget was already in flight.
Ev(ev, w, rect, clip, flag) == [ev |-> ev, w |-> w, rect |-> rect, clip |-> clip, flag |-> flag]

\* An event as handle() gets it: its id, the pointer's display point, and
\* whether a handler has marked it quit
Event(id, p, quit) == [id |-> id, point |-> p, quit |-> quit]
NoEvent == Event("none", [x |-> 0, y |-> 0], FALSE)

\* The memory of the process as one value, threaded through a call chain,
\* with the calls made so far (trace) and the exception thrown, if any.
\* ubcrash: whether this build crashes when it reads a destroyed widget.
Cur(crash) ==
       [alive |-> alive, m_parent |-> m_parent, m_children |-> m_children,
        m_box |-> m_box, m_user_requested_box |-> m_user_requested_box,
        invisible |-> invisible, no_layout |-> no_layout,
        no_autoresize |-> no_autoresize, m_in_layout |-> m_in_layout,
        m_in_draw |-> m_in_draw, m_damage |-> m_damage,
        disabled |-> disabled, readonly |-> readonly, active |-> active,
        grab_mouse |-> grab_mouse, checked |-> checked, m_align |-> m_align,
        m_palette |-> m_palette, m_font |-> m_font,
        global_palette |-> global_palette, global_font |-> global_font,
        keyboard_focus |-> keyboard_focus,
        mouse_grab |-> mouse_grab, event |-> NoEvent, quitters |-> {},
        sheet |-> sheet, hw_index |-> hw_index, sw_index |-> sw_index,
        plane |-> plane,
        aborted |-> FALSE, ub |-> FALSE, ubcrash |-> crash,
        thrown |-> "none", trace |-> <<>>, depth |-> 0]

Log(s, e) == [s EXCEPT !.trace = Append(@, e)]
\* a store that is not executed once the process has been aborted
Upd(s, t) == IF s.aborted THEN s ELSE t
\* abort(): a failed assert() ends the process where it stands
Fatal(s, w) == [s EXCEPT !.aborted = TRUE,
                         !.trace = Append(@, Ev("assert", w, NoRect, NoRect, FALSE))]
\* the call stack is exhausted: the process ends there
StackOverflow(s, w) == [s EXCEPT !.aborted = TRUE,
                                 !.trace = Append(@, Ev("overflow", w, NoRect, NoRect, FALSE))]
\* following a pointer: reading a destroyed widget is undefined behaviour
Deref(s, p) ==
    IF s.alive[p] \/ s.aborted THEN s
    ELSE IF s.ubcrash
    THEN [s EXCEPT !.aborted = TRUE, !.ub = TRUE,
                   !.trace = Append(@, Ev("crash", p, NoRect, NoRect, FALSE))]
    ELSE [s EXCEPT !.ub = TRUE]

\* detail::mouse_grab(Widget*) and detail::keyboard_focus(Widget*): the
\* setters of the two process-wide holders
set_mouse_grab(s, x) == Upd(s, [s EXCEPT !.mouse_grab = x])
set_keyboard_focus(s, x) == Upd(s, [s EXCEPT !.keyboard_focus = x])

visible(s, w) == ~s.invisible[w]
point(s, w) == PointOf(s.m_box[w])
size(s, w) == SizeOf(s.m_box[w])

\* to_parent that leaves the rect where it is
to_parent_same(s, w, r) == r

\* Widget::to_parent
to_parent(s, w, r) ==
    IF s.m_parent[w] # NoWidget
    THEN Rect(r.x + s.m_box[s.m_parent[w]].x, r.y + s.m_box[s.m_parent[w]].y, r.w, r.h)
    ELSE r

\* Widget::to_child: into the widget's own coordinates
to_child(s, w, r) == Rect(r.x - s.m_box[w].x, r.y - s.m_box[w].y, r.w, r.h)

\* Screen::damage_algorithm: an exact duplicate is dropped, a rect that
\* overlaps a stored one replaces it by the bounding rect of both
RECURSIVE damage_algorithm(_, _)
damage_algorithm(D, r) ==
    IF RectEmpty(r) THEN D
    ELSE IF r \in D THEN D
    ELSE IF \E d \in D : Intersect(d, r)
    THEN LET d == CHOOSE d \in D : Intersect(d, r)
         IN  damage_algorithm(D \ {d}, Merge(d, r))
    ELSE D \cup {r}

\* add_damage that merges the rect as it comes, not cut to the box
add_damage_unclipped(s, w, rect) ==
    IF s.aborted THEN s
    ELSE IF ~has_screen(w) THEN (IF ndebug THEN s ELSE Fatal(s, w))
    ELSE IF RectEmpty(rect) THEN s
    ELSE IF s.m_in_draw[w] THEN (IF ndebug THEN s ELSE Fatal(s, w))
    ELSE Log([s EXCEPT !.m_damage[w] = damage_algorithm(@, rect)],
             Ev("merge", w, rect, to_child(s, w, s.m_box[w]), FALSE))

\* add_damage that does not look at m_in_draw
add_damage_in_draw(s, w, rect) ==
    IF s.aborted THEN s
    ELSE IF ~has_screen(w) THEN (IF ndebug THEN s ELSE Fatal(s, w))
    ELSE IF RectEmpty(rect) THEN s
    ELSE LET r == Intersection(rect, to_child(s, w, s.m_box[w]))
         IN  Log([s EXCEPT !.m_damage[w] = damage_algorithm(@, r)],
                 Ev("merge", w, r, to_child(s, w, s.m_box[w]), FALSE))

\* Widget::add_damage
add_damage(s, w, rect) ==
    IF s.aborted THEN s
    ELSE IF ~has_screen(w) THEN (IF ndebug THEN s ELSE Fatal(s, w))
    ELSE IF RectEmpty(rect) THEN s
    ELSE IF s.m_in_draw[w] THEN (IF ndebug THEN s ELSE Fatal(s, w))
    ELSE LET r == Intersection(rect, to_child(s, w, s.m_box[w]))
         IN  Log([s EXCEPT !.m_damage[w] = damage_algorithm(@, r)],
                 Ev("merge", w, r, to_child(s, w, s.m_box[w]), FALSE))

\* call(s, f, w, a): widget w's method f is called with argument a in memory
\* s; the memory the call returns with.  Every call between the methods of
\* Widget goes through it.
RECURSIVE call(_, _, _, _)

\* Widget::damage_from_child
damage_from_child(s, w, rect) == call(s, "damage", w, rect)

\* damage that does not look at the invisible flag
damage_ignores_visible(s, w, rect) ==
    IF s.aborted THEN s
    ELSE LET s0 == Log(s, Ev("damage", w, rect, NoRect, visible(s, w)))
         IN  IF RectEmpty(rect) THEN s0
             ELSE IF ~has_screen(w)
             THEN IF s0.m_parent[w] # NoWidget
                  THEN damage_from_child(Deref(s0, s0.m_parent[w]), s0.m_parent[w],
                                         to_parent(s0, w, rect))
                  ELSE s0
             ELSE add_damage(s0, w, rect)

\* Widget::damage(const Rect&)
damage(s, w, rect) ==
    IF s.aborted THEN s
    ELSE LET s0 == Log(s, Ev("damage", w, rect, NoRect, visible(s, w)))
         IN  IF RectEmpty(rect) THEN s0
             ELSE IF ~visible(s0, w) THEN s0
             ELSE IF ~has_screen(w)
             THEN IF s0.m_parent[w] # NoWidget
                  THEN damage_from_child(Deref(s0, s0.m_parent[w]), s0.m_parent[w],
                                         to_parent(s0, w, rect))
                  ELSE s0
             ELSE add_damage(s0, w, rect)

\* Widget::damage()
damage_box(s, w) == call(s, "damage", w, s.m_box[w])

\* Widget::parent_in_layout
parent_in_layout(s, w) ==
    IF s.m_parent[w] # NoWidget THEN s.m_in_layout[s.m_parent[w]] ELSE FALSE

\* Widget::content_area
content_area(s, w) ==
    LET m == moat(w)
        b == Rect(s.m_box[w].x + m, s.m_box[w].y + m,
                  s.m_box[w].w - 2 * m, s.m_box[w].h - 2 * m)
    IN  IF RectEmpty(b) THEN RectOf(point(s, w), Size(0, 0)) ELSE b

\* Widget::min_size_hint
min_size_hint(w) ==
    IF ~SizeEmpty(m_min_size(w)) THEN m_min_size(w)
    ELSE Size(moat(w) * 2, moat(w) * 2)

\* detail::align_algorithm with padding 0 and no ratio set
align_algorithm(orig, bounding, align) ==
    IF align = {} THEN orig
    ELSE LET cx == IF "center" \in align
                   THEN bounding.x + (bounding.w \div 2) - (orig.w \div 2) ELSE orig.x
             cy == IF "center" \in align
                   THEN bounding.y + (bounding.h \div 2) - (orig.h \div 2) ELSE orig.y
             ax == IF "left" \in align THEN bounding.x
                   ELSE IF "right" \in align THEN bounding.x + bounding.w - orig.w
                   ELSE cx
             ay == IF "top" \in align THEN bounding.y
                   ELSE IF "bottom" \in align THEN bounding.y + bounding.h - orig.h
                   ELSE cy
         IN  IF "expand" \in align THEN bounding ELSE Rect(ax, ay, orig.w, orig.h)

\* parent_layout that asks neither for visible() nor for no_layout()
parent_layout_unconditional(s, w) ==
    IF s.aborted THEN s
    ELSE LET s0 == Log(s, Ev("parent_layout", w, NoRect, NoRect, FALSE))
         IN  IF s0.m_parent[w] # NoWidget
             THEN call(Deref(s0, s0.m_parent[w]), "layout", s0.m_parent[w], NoRect)
             ELSE s0

\* Widget::parent_layout
parent_layout(s, w) ==
    IF s.aborted THEN s
    ELSE LET s0 == Log(s, Ev("parent_layout", w, NoRect, NoRect, FALSE))
         IN  IF ~visible(s0, w) THEN s0
             ELSE IF s0.no_layout[w] THEN s0
             ELSE IF s0.m_parent[w] # NoWidget
             THEN call(Deref(s0, s0.m_parent[w]), "layout", s0.m_parent[w], NoRect)
             ELSE s0

\* resize that records the size as user-requested whoever asked for it
resize_records_always(s, w, sz) ==
    IF s.aborted THEN s
    ELSE IF sz # size(s, w)
    THEN LET s1 == damage_box(s, w)
             s2 == Upd(s1, Log([s1 EXCEPT !.m_box[w] = RectOf(PointOf(@), sz)],
                               Ev("geometry", w, RectOf(point(s1, w), sz), NoRect, FALSE)))
             s3 == damage_box(s2, w)
             s4 == Upd(s3, [s3 EXCEPT !.m_user_requested_box[w] = RectOf(PointOf(@), sz)])
             s5 == call(s4, "parent_layout", w, NoRect)
         IN  IF s5.m_children[w] # <<>> THEN call(s5, "layout", w, NoRect) ELSE s5
    ELSE s

\* Widget::resize
resize(s, w, sz) ==
    IF s.aborted THEN s
    ELSE IF sz # size(s, w)
    THEN LET s1 == damage_box(s, w)
             s2 == Upd(s1, Log([s1 EXCEPT !.m_box[w] = RectOf(PointOf(@), sz)],
                               Ev("geometry", w, RectOf(point(s1, w), sz), NoRect, FALSE)))
             s3 == damage_box(s2, w)
             s4 == IF ~parent_in_layout(s3, w) /\ ~s3.m_in_layout[w]
                   THEN Upd(s3, [s3 EXCEPT !.m_user_requested_box[w] = RectOf(PointOf(@), sz)])
                   ELSE s3
             s5 == call(s4, "parent_layout", w, NoRect)
         IN  IF s5.m_children[w] # <<>> THEN call(s5, "layout", w, NoRect) ELSE s5
    ELSE s

\* move without the comparison against the current point
move_always(s, w, p) ==
    IF s.aborted THEN s
    ELSE LET s1 == damage_box(s, w)
             s2 == Upd(s1, Log([s1 EXCEPT !.m_box[w] = RectOf(p, SizeOf(@))],
                               Ev("geometry", w, RectOf(p, size(s1, w)), NoRect, FALSE)))
             s3 == damage_box(s2, w)
             s4 == IF ~parent_in_layout(s3, w)
                   THEN Upd(s3, [s3 EXCEPT !.m_user_requested_box[w] = RectOf(p, SizeOf(@))])
                   ELSE s3
         IN  call(s4, "parent_layout", w, NoRect)

\* move that notifies the parent's layout before it damages the new box
move_layout_first(s, w, p) ==
    IF s.aborted THEN s
    ELSE IF p # point(s, w)
    THEN LET s1 == damage_box(s, w)
             s2 == Upd(s1, Log([s1 EXCEPT !.m_box[w] = RectOf(p, SizeOf(@))],
                               Ev("geometry", w, RectOf(p, size(s1, w)), NoRect, FALSE)))
             s3 == IF ~parent_in_layout(s2, w)
                   THEN Upd(s2, [s2 EXCEPT !.m_user_requested_box[w] = RectOf(p, SizeOf(@))])
                   ELSE s2
             s4 == call(s3, "parent_layout", w, NoRect)
         IN  damage_box(s4, w)
    ELSE s

\* Widget::move
move(s, w, p) ==
    IF s.aborted THEN s
    ELSE IF p # point(s, w)
    THEN LET s1 == damage_box(s, w)
             s2 == Upd(s1, Log([s1 EXCEPT !.m_box[w] = RectOf(p, SizeOf(@))],
                               Ev("geometry", w, RectOf(p, size(s1, w)), NoRect, FALSE)))
             s3 == damage_box(s2, w)
             s4 == IF ~parent_in_layout(s3, w)
                   THEN Upd(s3, [s3 EXCEPT !.m_user_requested_box[w] = RectOf(p, SizeOf(@))])
                   ELSE s3
         IN  call(s4, "parent_layout", w, NoRect)
    ELSE s

\* Widget::box(const Rect&)
box(s, w, rect) == call(call(s, "move", w, PointOf(rect)), "resize", w, SizeOf(rect))

\* Widget::align(const AlignFlags&): the assignment to m_align runs the
\* on_change callback registered in the constructor, which is parent_layout()
align(s, w, a) ==
    IF s.aborted THEN s
    ELSE call([s EXCEPT !.m_align[w] = a], "parent_layout", w, NoRect)

\* the loop of layout that lays a child out in an empty bounding rect too
layout_children_all(s, w, area, i) ==
    IF s.aborted \/ i > Len(s.m_children[w]) THEN s
    ELSE LET child == s.m_children[w][i]
             s1 == call(s, "layout", child, NoRect)
             r == align_algorithm(s1.m_box[child], to_child(s, w, area), s.m_align[child])
         IN  call(call(s1, "box", child, r), "layout_children", w, <<area, i + 1>>)

\* the loop of Widget::layout over m_children, from index i on
layout_children(s, w, area, i) ==
    IF s.aborted \/ i > Len(s.m_children[w]) THEN s
    ELSE LET child == s.m_children[w][i]
             bounding == to_child(s, w, area)
         IN  IF RectEmpty(bounding) THEN call(s, "layout_children", w, <<area, i + 1>>)
             ELSE LET s1 == call(s, "layout", child, NoRect)
                      r == align_algorithm(s1.m_box[child], bounding, s.m_align[child])
                  IN  call(call(s1, "box", child, r), "layout_children", w, <<area, i + 1>>)

\* layout that does not look at m_in_layout
layout_unguarded(s, w) ==
    IF s.aborted THEN s
    ELSE IF s.m_children[w] = <<>>
    THEN IF ~s.no_autoresize[w]
         THEN LET s1 == Log([s EXCEPT !.m_in_layout[w] = TRUE],
                            Ev("layout", w, NoRect, NoRect, s.m_in_layout[w]))
                  m == min_size_hint(w)
                  sz == Size(Max(size(s1, w).w, m.w), Max(size(s1, w).h, m.h))
                  s2 == call(s1, "resize", w, sz)
              IN  Upd(s2, Log([s2 EXCEPT !.m_in_layout[w] = FALSE],
                              Ev("layout_end", w, NoRect, NoRect, FALSE)))
         ELSE s
    ELSE IF ~visible(s, w) THEN s
    ELSE IF SizeEmpty(size(s, w)) THEN s
    ELSE LET s1 == Log([s EXCEPT !.m_in_layout[w] = TRUE],
                       Ev("layout", w, NoRect, NoRect, s.m_in_layout[w]))
             s2 == call(s1, "layout_children", w, <<content_area(s1, w), 1>>)
         IN  Upd(s2, Log([s2 EXCEPT !.m_in_layout[w] = FALSE],
                         Ev("layout_end", w, NoRect, NoRect, FALSE)))

\* Widget::layout
layout(s, w) ==
    IF s.aborted THEN s
    ELSE IF s.m_children[w] = <<>>
    THEN IF ~s.no_autoresize[w]
         THEN LET s1 == Log([s EXCEPT !.m_in_layout[w] = TRUE],
                            Ev("layout", w, NoRect, NoRect, s.m_in_layout[w]))
                  m == min_size_hint(w)
                  sz == Size(Max(size(s1, w).w, m.w), Max(size(s1, w).h, m.h))
                  s2 == call(s1, "resize", w, sz)
              IN  Upd(s2, Log([s2 EXCEPT !.m_in_layout[w] = FALSE],
                              Ev("layout_end", w, NoRect, NoRect, FALSE)))
         ELSE s
    ELSE IF ~visible(s, w) THEN s
    ELSE IF SizeEmpty(size(s, w)) THEN s
    ELSE IF s.m_in_layout[w] THEN s
    ELSE LET s1 == Log([s EXCEPT !.m_in_layout[w] = TRUE],
                       Ev("layout", w, NoRect, NoRect, s.m_in_layout[w]))
             s2 == call(s1, "layout_children", w, <<content_area(s1, w), 1>>)
         IN  Upd(s2, Log([s2 EXCEPT !.m_in_layout[w] = FALSE],
                         Ev("layout_end", w, NoRect, NoRect, FALSE)))

\* ------------------------------------------------------------ events
\* the ids Widget::handle sends down by hit test, and the keyboard ids
PointerIds == {"raw_pointer_down", "raw_pointer_up", "raw_pointer_move",
               "pointer_click", "pointer_dblclick", "pointer_hold",
               "pointer_drag_start", "pointer_drag", "pointer_drag_stop"}
KeyIds == {"keyboard_down", "keyboard_up", "keyboard_repeat"}

\* Widget::active(bool)
active_set(s, w, value) ==
    IF s.aborted THEN s
    ELSE IF s.active[w] # value
    THEN damage_box(Log([s EXCEPT !.active[w] = value],
                        Ev("active", w, NoRect, NoRect, value)), w)
    ELSE s

\* Event::grab(Widget*): the widget captures the pointer
event_grab(s, w) ==
    IF s.aborted THEN s
    ELSE set_mouse_grab(Log(s, Ev("grab", w, NoRect, NoRect, TRUE)), w)

\* invoke_handlers(event): the handlers registered on w run; those of a
\* widget in s.quitters mark the event quit
invoke_handlers(s, w) ==
    IF s.aborted THEN s
    ELSE LET s1 == Log(s, Ev("handler", w, NoRect, NoRect, w \in s.quitters))
         IN  IF w \in s.quitters THEN [s1 EXCEPT !.event.quit = TRUE] ELSE s1

\* Widget::can_handle_event: visible and not disabled
can_handle_event(s, w) == visible(s, w) /\ ~s.disabled[w]

\* Rect::intersect(Point): the point lies in the rect, edges included
IntersectPoint(r, p) ==
    /\ p.x <= r.x + r.w /\ p.x >= r.x
    /\ p.y <= r.y + r.h /\ p.y >= r.y

\* the walk of display_to_local up the parent pointers
RECURSIVE deref_parents(_, _)
deref_parents(s, w) ==
    IF s.aborted \/ s.m_parent[w] = NoWidget THEN s
    ELSE deref_parents(Deref(s, s.m_parent[w]), s.m_parent[w])
RECURSIVE parents_origin(_, _)
parents_origin(s, w) ==
    IF s.m_parent[w] = NoWidget THEN [x |-> 0, y |-> 0]
    ELSE LET o == parents_origin(s, s.m_parent[w])
         IN  [x |-> o.x + s.m_box[s.m_parent[w]].x, y |-> o.y + s.m_box[s.m_parent[w]].y]

\* Widget::display_to_local
display_to_local(s, w, p) ==
    [x |-> p.x - parents_origin(s, w).x - s.m_box[w].x,
     y |-> p.y - parents_origin(s, w).y - s.m_box[w].y]

\* local_to_display that leaves out the widget's own point
local_to_display_parents_only(s, w, p) ==
    [x |-> p.x + parents_origin(s, w).x, y |-> p.y + parents_origin(s, w).y]

\* Widget::local_to_display
local_to_display(s, w, p) ==
    [x |-> p.x + parents_origin(s, w).x + s.m_box[w].x,
     y |-> p.y + parents_origin(s, w).y + s.m_box[w].y]

\* Widget::display_origin
display_origin(s, w) ==
    [x |-> s.m_box[w].x + parents_origin(s, w).x,
     y |-> s.m_box[w].y + parents_origin(s, w).y]

\* hit test that goes on down the list after a child has taken the event
handle_pointer_all(s, w, pos, i) ==
    IF s.aborted \/ i < 1 THEN s
    ELSE LET child == s.m_children[w][i]
         IN  IF ~can_handle_event(s, child)
             THEN call(s, "handle_pointer", w, <<pos, i - 1>>)
             ELSE IF IntersectPoint(s.m_box[child], pos)
             THEN call(call(s, "handle", child, NoRect), "handle_pointer", w, <<pos, i - 1>>)
             ELSE call(s, "handle_pointer", w, <<pos, i - 1>>)

\* the hit test of Widget::handle over reverse_iterate(m_children), from
\* index i down
handle_pointer(s, w, pos, i) ==
    IF s.aborted \/ i < 1 THEN s
    ELSE LET child == s.m_children[w][i]
         IN  IF ~can_handle_event(s, child)
             THEN call(s, "handle_pointer", w, <<pos, i - 1>>)
             ELSE IF IntersectPoint(s.m_box[child], pos)
             THEN call(s, "handle", child, NoRect)
             ELSE call(s, "handle_pointer", w, <<pos, i - 1>>)

\* keyboard loop that goes on after a child has quit the event
handle_keys_no_stop(s, w, i) ==
    IF s.aborted \/ i < 1 THEN s
    ELSE LET child == s.m_children[w][i]
         IN  IF ~can_handle_event(s, child)
             THEN call(s, "handle_keys", w, i - 1)
             ELSE call(call(s, "handle", child, NoRect), "handle_keys", w, i - 1)

\* the keyboard loop of Widget::handle over reverse_iterate(m_children)
handle_keys(s, w, i) ==
    IF s.aborted \/ i < 1 THEN s
    ELSE LET child == s.m_children[w][i]
         IN  IF ~can_handle_event(s, child)
             THEN call(s, "handle_keys", w, i - 1)
             ELSE LET s1 == call(s, "handle", child, NoRect)
                  IN  IF s1.event.quit THEN s1
                      ELSE call(s1, "handle_keys", w, i - 1)

\* handle that does not look at event.quit() when it is entered
handle_quit_too(s, w) ==
    IF s.aborted THEN s
    ELSE LET s0 == Log(s, Ev("handle", w, NoRect, NoRect, s.event.quit))
             s1 == CASE s0.event.id = "raw_pointer_down" ->
                           IF s0.grab_mouse[w]
                           THEN event_grab(active_set(s0, w, TRUE), w)
                           ELSE s0
                      [] s0.event.id = "raw_pointer_up" -> active_set(s0, w, FALSE)
                      [] OTHER -> s0
             s2 == invoke_handlers(s1, w)
         IN  IF s2.m_children[w] # <<>>
             THEN IF s2.event.id \in PointerIds
                  THEN LET s3 == deref_parents(s2, w)
                       IN  call(s3, "handle_pointer", w,
                                <<display_to_local(s3, w, s3.event.point),
                                  Len(s3.m_children[w])>>)
                  ELSE IF s2.event.id \in KeyIds
                  THEN call(s2, "handle_keys", w, Len(s2.m_children[w]))
                  ELSE s2
             ELSE s2

\* Widget::handle for the event in s.event
handle(s, w) ==
    IF s.aborted THEN s
    ELSE LET s0 == Log(s, Ev("handle", w, NoRect, NoRect, s.event.quit))
         IN  IF s0.event.quit THEN s0
             ELSE LET s1 == CASE s0.event.id = "raw_pointer_down" ->
                                   IF s0.grab_mouse[w]
                                   THEN event_grab(active_set(s0, w, TRUE), w)
                                   ELSE s0
                              [] s0.event.id = "raw_pointer_up" -> active_set(s0, w, FALSE)
                              [] OTHER -> s0
                      s2 == invoke_handlers(s1, w)
                  IN  IF s2.m_children[w] # <<>>
                      THEN IF s2.event.id \in PointerIds
                           THEN LET s3 == deref_parents(s2, w)
                                IN  call(s3, "handle_pointer", w,
                                         <<display_to_local(s3, w, s3.event.point),
                                           Len(s3.m_children[w])>>)
                           ELSE IF s2.event.id \in KeyIds
                           THEN call(s2, "handle_keys", w, Len(s2.m_children[w]))
                           ELSE s2
                      ELSE s2

\* ------------------------------------------------------------ drawing
\* Widget::draw_child: the child gets the part of crect inside its own box
draw_child(s, w, crect, child) ==
    IF Intersect(s.m_box[child], crect)
    THEN LET r == Intersection(crect, s.m_box[child])
         IN  IF RectEmpty(r) THEN s ELSE call(s, "draw", child, r)
    ELSE s

\* the loop of draw that draws a child that owns a plane as well
draw_children_planes_too(s, w, crect, i) ==
    IF s.aborted \/ i > Len(s.m_children[w]) THEN s
    ELSE IF ~visible(s, s.m_children[w][i])
    THEN call(s, "draw_children", w, <<crect, i + 1>>)
    ELSE call(draw_child(s, w, crect, s.m_children[w][i]), "draw_children", w, <<crect, i + 1>>)

\* the loop of Widget::draw over m_children, from index i on
draw_children(s, w, crect, i) ==
    IF s.aborted \/ i > Len(s.m_children[w]) THEN s
    ELSE IF ~visible(s, s.m_children[w][i])
    THEN call(s, "draw_children", w, <<crect, i + 1>>)
    ELSE IF plane_window(s.m_children[w][i])
    THEN call(s, "draw_children", w, <<crect, i + 1>>)
    ELSE call(draw_child(s, w, crect, s.m_children[w][i]), "draw_children", w, <<crect, i + 1>>)

\* the rect draw compares its children with: the draw rect in the widget's
\* own coordinates, kept inside the content area
child_rect(s, w, rect) ==
    Intersection(IF has_screen(w) THEN rect ELSE to_child(s, w, rect),
                 to_child(s, w, content_area(s, w)))

\* Widget::draw
draw(s, w, rect) ==
    IF s.aborted THEN s
    ELSE IF s.m_children[w] = <<>>
    THEN Log(s, Ev("draw", w, rect, NoRect, FALSE))
    ELSE call(Log(s, Ev("draw", w, rect, child_rect(s, w, rect), FALSE)),
              "draw_children", w, <<child_rect(s, w, rect), 1>>)

call(s, f, w, a) ==
    IF s.aborted THEN s
    ELSE IF f \in {"draw_children", "layout_children", "handle_pointer", "handle_keys"}
    THEN CASE f = "draw_children" -> draw_children(s, w, a[1], a[2])
           [] f = "layout_children" -> layout_children(s, w, a[1], a[2])
           [] f = "handle_pointer" -> handle_pointer(s, w, a[1], a[2])
           [] f = "handle_keys" -> handle_keys(s, w, a)
    ELSE IF s.depth >= MaxDepth THEN StackOverflow(s, w)
    ELSE LET s0 == [s EXCEPT !.depth = @ + 1]
             r == CASE f = "damage" -> damage(s0, w, a)
                    [] f = "move" -> move(s0, w, a)
                    [] f = "resize" -> resize(s0, w, a)
                    [] f = "box" -> box(s0, w, a)
                    [] f = "parent_layout" -> parent_layout(s0, w)
                    [] f = "layout" -> layout(s0, w)
                    [] f = "handle" -> handle(s0, w)
                    [] f = "draw" -> draw(s0, w, a)
         IN  [r EXCEPT !.depth = s.depth]

\* ------------------------------------------------------- visibility, flags
\* hide that marks the widget invisible before it damages
hide_flag_first(s, w) ==
    IF s.invisible[w] THEN s
    ELSE damage_box(Log([s EXCEPT !.invisible[w] = TRUE],
                        Ev("invisible", w, NoRect, NoRect, TRUE)), w)

\* Widget::hide
hide(s, w) ==
    IF s.invisible[w] THEN s
    ELSE LET s1 == damage_box(s, w)
         IN  Upd(s1, Log([s1 EXCEPT !.invisible[w] = TRUE],
                         Ev("invisible", w, NoRect, NoRect, TRUE)))

\* Widget::show
show(s, w) ==
    IF ~s.invisible[w] THEN s
    ELSE damage_box(Log([s EXCEPT !.invisible[w] = FALSE],
                        Ev("invisible", w, NoRect, NoRect, FALSE)), w)

\* Widget::autoresize(bool)
autoresize(s, w, value) ==
    IF s.no_autoresize[w] = value
    THEN IF value
         THEN call([s EXCEPT !.no_autoresize[w] = FALSE], "layout", w, NoRect)
         ELSE [s EXCEPT !.no_autoresize[w] = TRUE]
    ELSE s

\* Widget::no_layout(bool)
set_no_layout(s, w, value) ==
    IF s.no_layout[w] # value THEN [s EXCEPT !.no_layout[w] = value] ELSE s

\* Widget::readonly(bool)
set_readonly(s, w, value) ==
    IF s.aborted THEN s
    ELSE IF s.readonly[w] # value
    THEN LET s1 == IF value
                   THEN LET r == [s EXCEPT !.readonly[w] = TRUE]
                        IN  IF r.keyboard_focus = w THEN set_keyboard_focus(r, NoWidget)
                            ELSE r
                   ELSE [s EXCEPT !.readonly[w] = FALSE]
         IN  damage_box(s1, w)
    ELSE s

\* disable that leaves the keyboard focus where it is
disable_keeps_focus(s, w) ==
    IF s.aborted \/ s.disabled[w] THEN s
    ELSE LET s1 == damage_box(s, w)
         IN  Upd(s1, [s1 EXCEPT !.disabled[w] = TRUE])

\* Widget::disable
disable(s, w) ==
    IF s.aborted \/ s.disabled[w] THEN s
    ELSE LET s1 == damage_box(s, w)
             s2 == Upd(s1, [s1 EXCEPT !.disabled[w] = TRUE])
         IN  IF s2.keyboard_focus = w THEN set_keyboard_focus(s2, NoWidget) ELSE s2

\* Widget::enable
enable(s, w) ==
    IF s.aborted \/ ~s.disabled[w] THEN s
    ELSE LET s1 == damage_box(s, w)
         IN  Upd(s1, [s1 EXCEPT !.disabled[w] = FALSE])

\* Widget::grab_mouse(bool)
set_grab_mouse(s, w, value) ==
    IF s.grab_mouse[w] # value THEN [s EXCEPT !.grab_mouse[w] = value] ELSE s

\* Widget::visible(bool)
set_visible(s, w, value) ==
    IF visible(s, w) # value
    THEN (IF value THEN show(s, w) ELSE hide(s, w))
    ELSE s

\* checked(bool) that damages whether or not the flag changes
set_checked_always(s, w, value) ==
    IF s.aborted THEN s ELSE damage_box([s EXCEPT !.checked[w] = value], w)

\* Widget::checked(bool)
set_checked(s, w, value) ==
    IF s.aborted THEN s
    ELSE IF s.checked[w] # value
    THEN damage_box([s EXCEPT !.checked[w] = value], w)
    ELSE s

\* Widget::color(id, group).  A pattern is <<name>> where a widget set it;
\* what the global palette and the theme's palette hold for (id, group) is
\* <<"global", id, group>> and <<"theme", id, group>>.
RECURSIVE color_group(_, _, _, _)
color_group(s, w, id, group) ==
    IF s.m_palette[w].set /\ \E e \in s.m_palette[w].colors : e[1] = id /\ e[2] = group
    THEN (CHOOSE e \in s.m_palette[w].colors : e[1] = id /\ e[2] = group)[3]
    ELSE IF s.m_parent[w] # NoWidget
    THEN IF s.alive[s.m_parent[w]] THEN color_group(s, s.m_parent[w], id, group)
         ELSE <<"undefined">>
    ELSE IF s.global_palette THEN <<"global", id, group>>
    ELSE <<"theme", id, group>>

\* color(id) that looks at checked before active
color_checked_first(s, w, id) ==
    color_group(s, w, id, IF s.disabled[w] THEN "disabled"
                          ELSE IF s.checked[w] THEN "checked"
                          ELSE IF s.active[w] THEN "active"
                          ELSE "normal")

\* Widget::color(id)
color(s, w, id) ==
    color_group(s, w, id, IF s.disabled[w] THEN "disabled"
                          ELSE IF s.active[w] THEN "active"
                          ELSE IF s.checked[w] THEN "checked"
                          ELSE "normal")

\* Widget::color(id, pattern, group), the setter
set_color(s, w, id, pattern, group) ==
    IF s.aborted THEN s
    ELSE LET pal == IF s.m_palette[w].set THEN s.m_palette[w].colors ELSE {}
         IN  IF <<id, group, pattern>> \notin pal
             THEN damage_box([s EXCEPT !.m_palette[w] =
                                 [set |-> TRUE,
                                  colors |-> {e \in pal : e[1] # id \/ e[2] # group}
                                             \cup {<<id, group, pattern>>}]], w)
             ELSE s

\* Widget::font(): <<"font", x>> is the font set on widget x
RECURSIVE font(_, _)
font(s, w) ==
    IF s.m_font[w] THEN <<"font", w>>
    ELSE IF s.m_parent[w] # NoWidget
    THEN IF s.alive[s.m_parent[w]] THEN font(s, s.m_parent[w]) ELSE <<"undefined">>
    ELSE IF s.global_font THEN <<"global">>
    ELSE <<"theme">>

\* Widget::focus(bool); focus() tells whether the widget holds the focus
focus(s, w, value) ==
    IF (s.keyboard_focus = w) # value
    THEN set_keyboard_focus(s, IF value THEN w ELSE NoWidget)
    ELSE s

\* ------------------------------------------------------------ the tree
\* std::find_if over m_children: the index of widget, 0 when it is not there
IndexOf(seq, x) ==
    IF \E i \in 1..Len(seq) : seq[i] = x
    THEN CHOOSE i \in 1..Len(seq) : seq[i] = x /\ \A j \in 1..(i - 1) : seq[j] # x
    ELSE 0
\* m_children.erase(i)
EraseAt(seq, i) == [j \in 1..(Len(seq) - 1) |-> IF j < i THEN seq[j] ELSE seq[j + 1]]
\* std::iter_swap(i, to)
SwapAt(seq, i, j) == [seq EXCEPT ![i] = seq[j], ![j] = seq[i]]
\* m_children.splice(pos, m_children, i, std::next(i)): the element at i is
\* moved to sit before the element now at index pos (pos = Len + 1: the end)
SpliceAt(seq, pos, i) ==
    LET rest == EraseAt(seq, i)
        at == IF pos > i THEN pos - 1 ELSE pos
    IN  SubSeq(rest, 1, at - 1) \o <<seq[i]>> \o SubSeq(rest, at, Len(rest))

\* throw std::runtime_error(what)
Throw(s, what) == [s EXCEPT !.thrown = what]

\* set_parent that accepts a second parent
set_parent_second(s, w, parent) ==
    IF s.aborted THEN s
    ELSE IF parent = w THEN Throw(s, "cannot add a widget to itself")
    ELSE damage_box([s EXCEPT !.m_parent[w] = parent], w)

\* set_parent that takes the new parent before it looks at the old one
set_parent_unchecked(s, w, parent) ==
    IF s.aborted THEN s
    ELSE LET s1 == [s EXCEPT !.m_parent[w] = parent]
         IN  IF s.m_parent[w] # NoWidget
             THEN (IF ndebug THEN Throw(s1, "widget already has a parent") ELSE Fatal(s1, w))
             ELSE IF parent = w THEN Throw(s1, "cannot add a widget to itself")
             ELSE damage_box(s1, w)

\* Widget::set_parent
set_parent(s, w, parent) ==
    IF s.aborted THEN s
    ELSE IF s.m_parent[w] # NoWidget
    THEN (IF ndebug THEN Throw(s, "widget already has a parent") ELSE Fatal(s, w))
    ELSE IF parent = w THEN Throw(s, "cannot add a widget to itself")
    ELSE damage_box([s EXCEPT !.m_parent[w] = parent], w)

\* Frame::add: take the widget as the topmost child and lay out
add(s, p, widget) ==
    LET s1 == set_parent(s, widget, p)
    IN  IF s1.aborted \/ s1.thrown # "none" THEN s1
        ELSE call([s1 EXCEPT !.m_children[p] = Append(@, widget)], "layout", p, NoRect)

\* remove that leaves the child's parent pointer as it is
remove_keeps_parent(s, p, widget) ==
    IF s.aborted \/ widget = NoWidget THEN s
    ELSE LET i == IndexOf(s.m_children[p], widget)
         IN  IF i # 0
             THEN call(Upd(damage_box(s, widget),
                           [damage_box(s, widget) EXCEPT !.m_children[p] = EraseAt(@, i)]),
                       "layout", p, NoRect)
             ELSE s

\* Widget::remove
remove(s, p, widget) ==
    IF s.aborted \/ widget = NoWidget THEN s
    ELSE LET i == IndexOf(s.m_children[p], widget)
         IN  IF i # 0
             THEN LET s1 == damage_box(s, widget)
                      s2 == Upd(s1, [s1 EXCEPT !.m_parent[widget] = NoWidget,
                                               !.m_children[p] = EraseAt(@, i)])
                  IN  call(s2, "layout", p, NoRect)
             ELSE IF s.m_parent[widget] = p
             THEN [s EXCEPT !.m_parent[widget] = NoWidget]
             ELSE s

\* Frame::count_children
count_children(s, p) == Len(s.m_children[p])

\* Frame::remove_all: every child is removed as remove does it, topmost first
RECURSIVE remove_all(_, _)
remove_all(s, p) ==
    IF s.aborted \/ s.m_children[p] = <<>> THEN s
    ELSE remove_all(remove(s, p, s.m_children[p][Len(s.m_children[p])]), p)

\* Widget::detach
detach(s, w) ==
    IF s.aborted THEN s
    ELSE IF s.m_parent[w] # NoWidget
    THEN LET s1 == remove(Deref(s, s.m_parent[w]), s.m_parent[w], w)
         IN  Upd(s1, [s1 EXCEPT !.m_parent[w] = NoWidget])
    ELSE s

\* ~Widget: a holder that refers to the widget is cleared
clear_holders(s, w) ==
    Upd(s, [s EXCEPT !.mouse_grab = IF @ = w THEN NoWidget ELSE @,
                     !.keyboard_focus = IF @ = w THEN NoWidget ELSE @])

\* the destruction of the members after ~Widget: the child list is gone, the
\* children themselves live on where somebody else holds them
destroy_members(s, w) ==
    Upd(s, [s EXCEPT !.alive[w] = FALSE, !.m_children[w] = <<>>])

\* destroy that leaves the two holders as they are
destroy_keeps_holders(s, w) == destroy_members(detach(s, w), w)

\* Widget::~Widget, then the destruction of the members
destroy(s, w) == destroy_members(clear_holders(detach(s, w), w), w)

\* Widget::zorder_down(const Widget*)
zorder_down_child(s, p, widget) ==
    LET i == IndexOf(s.m_children[p], widget)
    IN  IF i # 0 /\ i # 1
        THEN LET s1 == damage_box(s, s.m_children[p][i])
                 s2 == damage_box(s1, s.m_children[p][i - 1])
             IN  Upd(s2, [s2 EXCEPT !.m_children[p] = SwapAt(@, i, i - 1)])
        ELSE s

\* Widget::zorder_up(const Widget*)
zorder_up_child(s, p, widget) ==
    LET i == IndexOf(s.m_children[p], widget)
    IN  IF i # 0 /\ i + 1 <= Len(s.m_children[p])
        THEN LET s1 == damage_box(s, s.m_children[p][i])
                 s2 == damage_box(s1, s.m_children[p][i + 1])
                 s3 == Upd(s2, [s2 EXCEPT !.m_children[p] = SwapAt(@, i, i + 1)])
             IN  call(s3, "layout", p, NoRect)
        ELSE s

\* Widget::zorder_bottom(const Widget*)
zorder_bottom_child(s, p, widget) ==
    IF Len(s.m_children[p]) <= 1 THEN s
    ELSE LET i == IndexOf(s.m_children[p], widget)
         IN  IF i # 0 /\ i # 1
             THEN call([s EXCEPT !.m_children[p] = SpliceAt(@, 1, i)], "layout", p, NoRect)
             ELSE s

\* zorder_top that swaps the child with the topmost one
zorder_top_swap(s, p, widget) ==
    IF Len(s.m_children[p]) <= 1 THEN s
    ELSE LET i == IndexOf(s.m_children[p], widget)
         IN  IF i # 0
             THEN call([s EXCEPT !.m_children[p] = SwapAt(@, i, Len(@))], "layout", p, NoRect)
             ELSE s

\* Widget::zorder_top(const Widget*)
zorder_top_child(s, p, widget) ==
    IF Len(s.m_children[p]) <= 1 THEN s
    ELSE LET i == IndexOf(s.m_children[p], widget)
         IN  IF i # 0
             THEN call([s EXCEPT !.m_children[p] = SpliceAt(@, Len(@) + 1, i)], "layout", p, NoRect)
             ELSE s

\* z-order query that counts from the top of the list
zorder_from_top(s, p, widget) ==
    LET i == IndexOf(s.m_children[p], widget)
    IN  IF i # 0 THEN Len(s.m_children[p]) - i ELSE 0

\* Widget::zorder(const Widget*): the rank of the child, counted from 0
zorder_child(s, p, widget) ==
    LET i == IndexOf(s.m_children[p], widget)
    IN  IF i # 0 THEN i - 1 ELSE 0

\* Widget::zorder(): the widget's rank in its parent, for a widget whose
\* parent, if it has one, is alive
zorder(s, w) ==
    IF s.m_parent[w] # NoWidget THEN zorder_child(s, s.m_parent[w], w) ELSE 0

\* zorder(widget, rank) that does not step past the target when moving up
zorder_rank_no_advance(s, p, widget, rank) ==
    LET i == IndexOf(s.m_children[p], widget)
        r == Min(rank, Len(s.m_children[p]) - 1)
    IN  IF i # 0 /\ r # i - 1
        THEN call([s EXCEPT !.m_children[p] = SpliceAt(@, r + 1, i)], "layout", p, NoRect)
        ELSE s

\* Widget::zorder(const Widget*, size_t): ranks count from 0, list indices
\* from 1
zorder_rank_child(s, p, widget, rank) ==
    LET i == IndexOf(s.m_children[p], widget)
        r == Min(rank, Len(s.m_children[p]) - 1)
    IN  IF i # 0 /\ r # i - 1
        THEN call([s EXCEPT !.m_children[p] =
                      SpliceAt(@, IF r > i - 1 THEN r + 2 ELSE r + 1, i)],
                  "layout", p, NoRect)
        ELSE s

\* Widget::zorder(size_t)
zorder_rank(s, w, rank) ==
    IF s.m_parent[w] # NoWidget
    THEN zorder_rank_child(Deref(s, s.m_parent[w]), s.m_parent[w], w, rank)
    ELSE s

\* Widget::zorder_down(), zorder_up(), zorder_bottom(), zorder_top()
zorder_down(s, w) ==
    IF s.m_parent[w] # NoWidget
    THEN zorder_down_child(Deref(s, s.m_parent[w]), s.m_parent[w], w) ELSE s
zorder_up(s, w) ==
    IF s.m_parent[w] # NoWidget
    THEN zorder_up_child(Deref(s, s.m_parent[w]), s.m_parent[w], w) ELSE s
zorder_bottom(s, w) ==
    IF s.m_parent[w] # NoWidget
    THEN zorder_bottom_child(Deref(s, s.m_parent[w]), s.m_parent[w], w) ELSE s
zorder_top(s, w) ==
    IF s.m_parent[w] # NoWidget
    THEN zorder_top_child(Deref(s, s.m_parent[w]), s.m_parent[w], w) ELSE s

\* ---------------------------------------------------------------- actions
Points == {Point(0, 0), Point(1, 1)}
Sizes == {Size(0, 0), Size(1, 1), Size(3, 3)}
\* rects handed to damage(rect): empty, inside, partly outside, far outside
DamageRects == {Rect(0, 0, 0, 0), Rect(0, 0, 2, 2), Rect(3, 3, 2, 2), Rect(6, 6, 1, 1)}

\* A sprite sheet with one strip: the image's width, the frame's size
\* (m_frame), the number of frames of the strip and where the strip starts.
Sheet(imagew, framew, frameh, framecount, framex, framey) ==
    [imagew |-> imagew, framew |-> framew, frameh |-> frameh,
     framecount |-> framecount, framex |-> framex, framey |-> framey]
\* one row of three; two rows of three; one frame; a strip that starts at an
\* x offset; a strip that starts at a y offset; a frame that straddles the
\* end of the row
Sheets == {Sheet(300, 100, 50, 3, 0, 0), Sheet(300, 100, 50, 6, 0, 0),
           Sheet(4, 2, 1, 1, 0, 0), Sheet(8, 2, 1, 2, 2, 0),
           Sheet(300, 100, 50, 4, 0, 5), Sheet(5, 2, 1, 4, 0, 0)}
DefaultSheet == Sheet(300, 100, 50, 3, 0, 0)
\* the plane's registers before anything was applied to the controller
NoPan == Rect(0, 0, 0, 0)

\* HardwareSprite::HardwareSprite and SoftwareSprite::SoftwareSprite: index 0;
\* the hardware variant writes the strip's start and the frame size to the
\* plane and does not apply them
SpriteInit(sh) ==
    /\ sheet = sh
    /\ hw_index = 0
    /\ sw_index = 0
    /\ plane = [pan |-> Rect(sh.framex, sh.framey, sh.framew, sh.frameh), shown |-> NoPan,
                applied |-> FALSE]

\* the widgets as constructed, nothing attached yet
InitWidgets ==
    /\ alive = [w \in Widgets |-> TRUE]
    /\ m_parent = [w \in Widgets |-> NoWidget]
    /\ m_children = [w \in Widgets |-> <<>>]
    /\ m_box = [w \in Widgets |-> InitBox(w)]
    /\ m_user_requested_box = [w \in Widgets |-> InitBox(w)]
    /\ invisible = [w \in Widgets |-> FALSE]
    /\ no_layout = [w \in Widgets |-> FALSE]
    /\ no_autoresize = [w \in Widgets |-> FALSE]
    /\ m_in_layout = [w \in Widgets |-> FALSE]
    /\ m_in_draw = [w \in Widgets |-> FALSE]
    /\ m_damage = [w \in Widgets |-> {}]
    /\ disabled = [w \in Widgets |-> FALSE]
    /\ readonly = [w \in Widgets |-> FALSE]
    /\ active = [w \in Widgets |-> FALSE]
    /\ grab_mouse = [w \in Widgets |-> FALSE]
    /\ checked = [w \in Widgets |-> FALSE]
    /\ m_align = [w \in Widgets |-> InitAlign(w)]
    /\ m_palette = [w \in Widgets |-> NoPalette]
    /\ m_font = [w \in Widgets |-> FALSE]
    /\ global_palette = FALSE
    /\ global_font = FALSE
    /\ keyboard_focus = NoWidget
    /\ mouse_grab = NoWidget
    /\ ndebug \in BOOLEAN
    /\ aborted = FALSE
    /\ nops = 0

Init == InitWidgets /\ SpriteInit(DefaultSheet)

\* the state an operation leaves behind
Commit(s) ==
    /\ alive' = s.alive
    /\ m_parent' = s.m_parent
    /\ m_children' = s.m_children
    /\ m_box' = s.m_box
    /\ m_user_requested_box' = s.m_user_requested_box
    /\ invisible' = s.invisible
    /\ no_layout' = s.no_layout
    /\ no_autoresize' = s.no_autoresize
    /\ m_in_layout' = s.m_in_layout
    /\ m_in_draw' = s.m_in_draw
    /\ m_damage' = s.m_damage
    /\ disabled' = s.disabled
    /\ readonly' = s.readonly
    /\ active' = s.active
    /\ grab_mouse' = s.grab_mouse
    /\ checked' = s.checked
    /\ m_align' = s.m_align
    /\ m_palette' = s.m_palette
    /\ m_font' = s.m_font
    /\ global_palette' = s.global_palette
    /\ global_font' = s.global_font
    /\ keyboard_focus' = s.keyboard_focus
    /\ mouse_grab' = s.mouse_grab
    /\ sheet' = s.sheet
    /\ hw_index' = s.hw_index
    /\ sw_index' = s.sw_index
    /\ plane' = s.plane
    /\ aborted' = s.aborted
    /\ nops' = nops + 1
    /\ UNCHANGED ndebug

\* One operation called from outside the core.  Where the call chain reads a
\* destroyed widget the build either reads the stale memory or crashes there.
Run(F(_)) ==
    /\ ~aborted
    /\ nops < MaxOps
    /\ \/ Commit(F(Cur(FALSE)))
       \/ F(Cur(FALSE)).ub /\ Commit(F(Cur(TRUE)))

\* a widget is never added below itself: the widgets form a tree
RECURSIVE Ancestors(_, _)
Ancestors(par, w) ==
    IF par[w] = NoWidget THEN {} ELSE {par[w]} \cup Ancestors(par, par[w])

Add(p, c) ==
    /\ alive[p] /\ alive[c]
    /\ c \notin Ancestors(m_parent, p)
    /\ Run(LAMBDA s : add(s, p, c))
Remove(p, c) ==
    /\ alive[p] /\ alive[c]
    /\ Run(LAMBDA s : remove(s, p, c))
Detach(w) ==
    /\ alive[w]
    /\ Run(LAMBDA s : detach(s, w))
Destroy(w) ==
    /\ alive[w]
    /\ Run(LAMBDA s : destroy(s, w))
Move(w, p) ==
    /\ alive[w]
    /\ Run(LAMBDA s : call(s, "move", w, p))
Resize(w, sz) ==
    /\ alive[w]
    /\ Run(LAMBDA s : call(s, "resize", w, sz))
Box(w, p, sz) ==
    /\ alive[w]
    /\ Run(LAMBDA s : call(s, "box", w, RectOf(p, sz)))
Hide(w) ==
    /\ alive[w]
    /\ Run(LAMBDA s : hide(s, w))
Show(w) ==
    /\ alive[w]
    /\ Run(LAMBDA s : show(s, w))
Damage(w, r) ==
    /\ alive[w]
    /\ Run(LAMBDA s : call(s, "damage", w, r))
Layout(w) ==
    /\ alive[w]
    /\ Run(LAMBDA s : call(s, "layout", w, NoRect))
Autoresize(w, b) ==
    /\ alive[w]
    /\ Run(LAMBDA s : autoresize(s, w, b))
Align(w, a) ==
    /\ alive[w]
    /\ Run(LAMBDA s : align(s, w, a))
NoLayout(w, b) ==
    /\ alive[w]
    /\ Run(LAMBDA s : set_no_layout(s, w, b))
ZorderDown(w) ==
    /\ alive[w]
    /\ Run(LAMBDA s : zorder_down(s, w))
ZorderUp(w) ==
    /\ alive[w]
    /\ Run(LAMBDA s : zorder_up(s, w))
ZorderBottom(w) ==
    /\ alive[w]
    /\ Run(LAMBDA s : zorder_bottom(s, w))
ZorderTop(w) ==
    /\ alive[w]
    /\ Run(LAMBDA s : zorder_top(s, w))
ZorderRank(w, rank) ==
    /\ alive[w]
    /\ Run(LAMBDA s : zorder_rank(s, w, rank))
RemoveAll(p) ==
    /\ alive[p]
    /\ Run(LAMBDA s : remove_all(s, p))

\* the screen owner starts to redraw its dirty rects
begin_draw(s, w) == [s EXCEPT !.m_in_draw[w] = TRUE]
\* the redraw is over: the dirty rects are consumed
end_draw(s, w) == [s EXCEPT !.m_in_draw[w] = FALSE, !.m_damage[w] = {}]

BeginDraw(w) ==
    /\ alive[w] /\ has_screen(w) /\ ~m_in_draw[w]
    /\ Run(LAMBDA s : begin_draw(s, w))
EndDraw(w) ==
    /\ alive[w] /\ has_screen(w) /\ m_in_draw[w]
    /\ Run(LAMBDA s : end_draw(s, w))

Next ==
    \/ \E p, c \in Widgets : Add(p, c)
    \/ \E p, c \in Widgets : Remove(p, c)
    \/ \E w \in Widgets : Detach(w)
    \/ \E w \in Widgets : Destroy(w)
    \/ \E w \in Widgets, p \in Points : Move(w, p)
    \/ \E w \in Widgets, sz \in Sizes : Resize(w, sz)
    \/ \E w \in Widgets, p \in Points, sz \in Sizes : Box(w, p, sz)
    \/ \E w \in Widgets : Hide(w)
    \/ \E w \in Widgets : Show(w)
    \/ \E w \in Widgets, r \in DamageRects : Damage(w, r)
    \/ \E w \in Widgets : Layout(w)
    \/ \E w \in Widgets, b \in BOOLEAN : Autoresize(w, b)
    \/ \E w \in Widgets, b \in BOOLEAN : NoLayout(w, b)
    \/ \E w \in Widgets : ZorderDown(w)
    \/ \E w \in Widgets : ZorderUp(w)
    \/ \E w \in Widgets : ZorderBottom(w)
    \/ \E w \in Widgets : ZorderTop(w)
    \/ \E w \in Widgets : BeginDraw(w)
    \/ \E w \in Widgets : EndDraw(w)

Spec == Init /\ [][Next]_vars

\* ------------------------------------------------- actions of the input side
\* the events that come in: pointer, keyboard, and one of another kind
InputIds == {"raw_pointer_down", "raw_pointer_up", "raw_pointer_move",
             "keyboard_down", "keyboard_up", "keyboard_repeat", "property_changed"}
\* display points of the pointer
EventPoints == {Point(1, 0), Point(2, 2)}
\* the widgets whose registered handlers mark the event quit
Quitters == {{}, {1}, {2}, {3}}

\* handle(event) called on w from outside, with the handlers as registered
handle_event(s, w, e, q) ==
    call([s EXCEPT !.event = e, !.quitters = q], "handle", w, NoRect)

Handle(w, id, p, q) ==
    /\ alive[w]
    /\ Run(LAMBDA s : handle_event(s, w, Event(id, p, FALSE), q))
Disable(w) ==
    /\ alive[w]
    /\ Run(LAMBDA s : disable(s, w))
Enable(w) ==
    /\ alive[w]
    /\ Run(LAMBDA s : enable(s, w))
Readonly(w, b) ==
    /\ alive[w]
    /\ Run(LAMBDA s : set_readonly(s, w, b))
GrabMouse(w, b) ==
    /\ alive[w]
    /\ Run(LAMBDA s : set_grab_mouse(s, w, b))
Focus(w, b) ==
    /\ alive[w]
    /\ Run(LAMBDA s : focus(s, w, b))

NextInput ==
    \/ \E p, c \in Widgets : Add(p, c)
    \/ \E w \in Widgets : Destroy(w)
    \/ \E w \in Widgets, sz \in Sizes : Resize(w, sz)
    \/ \E w \in Widgets : Hide(w)
    \/ \E w \in Widgets : Disable(w)
    \/ \E w \in Widgets : Enable(w)
    \/ \E w \in Widgets, b \in BOOLEAN : Readonly(w, b)
    \/ \E w \in Widgets, b \in BOOLEAN : GrabMouse(w, b)
    \/ \E w \in Widgets, b \in BOOLEAN : Focus(w, b)
    \/ \E w \in Widgets, id \in InputIds, p \in EventPoints, q \in Quitters :
          Handle(w, id, p, q)

SpecInput == Init /\ [][NextInput]_vars

\* ------------------------------------------- actions of flags and colours
Checked(w, b) ==
    /\ alive[w]
    /\ Run(LAMBDA s : set_checked(s, w, b))
Active(w, b) ==
    /\ alive[w]
    /\ Run(LAMBDA s : active_set(s, w, b))
Color(w, id, c, group) ==
    /\ alive[w]
    /\ Run(LAMBDA s : set_color(s, w, id, c, group))
\* Widget::font(const Font&): the widget gets a font of its own
Font(w) ==
    /\ alive[w]
    /\ Run(LAMBDA s : [s EXCEPT !.m_font[w] = TRUE])
\* global_palette(palette) and global_font(font): a process-wide palette or
\* font is set, or reset
GlobalPalette(b) ==
    /\ ~aborted
    /\ Run(LAMBDA s : [s EXCEPT !.global_palette = b])
GlobalFont(b) ==
    /\ ~aborted
    /\ Run(LAMBDA s : [s EXCEPT !.global_font = b])

NextColor ==
    \/ \E p, c \in Widgets : Add(p, c)
    \/ \E w \in Widgets : Hide(w)
    \/ \E w \in Widgets : Show(w)
    \/ \E w \in Widgets : Disable(w)
    \/ \E w \in Widgets : Enable(w)
    \/ \E w \in Widgets, b \in BOOLEAN : Readonly(w, b)
    \/ \E w \in Widgets, b \in BOOLEAN : GrabMouse(w, b)
    \/ \E w \in Widgets, b \in BOOLEAN : NoLayout(w, b)
    \/ \E w \in Widgets, b \in BOOLEAN : Autoresize(w, b)
    \/ \E w \in Widgets, b \in BOOLEAN : Checked(w, b)
    \/ \E w \in Widgets, b \in BOOLEAN : Active(w, b)
    \/ \E w \in Widgets, a \in {{}, {"center"}} : Align(w, a)
    \/ \E w \in Widgets :
          \E a \in {<<"bg", "active", <<"red">>>>, <<"bg", "checked", <<"blue">>>>,
                    <<"bg", "disabled", <<"red">>>>, <<"text", "active", <<"blue">>>>} :
             Color(w, a[1], a[3], a[2])
    \/ \E w \in Widgets : Font(w)
    \/ \E b \in BOOLEAN : GlobalPalette(b)
    \/ \E b \in BOOLEAN : GlobalFont(b)

SpecColor == Init /\ [][NextColor]_vars

\* ------------------------------------------------ a frame with three children
\* four widgets, so that a frame can hold three children; the fourth is
\* constructed like the third
Widgets4 == Widgets \cup {4}

InitZorder ==
    /\ alive = [w \in Widgets4 |-> TRUE]
    /\ m_parent = [w \in Widgets4 |-> NoWidget]
    /\ m_children = [w \in Widgets4 |-> <<>>]
    /\ m_box = [w \in Widgets4 |-> InitBox(w)]
    /\ m_user_requested_box = [w \in Widgets4 |-> InitBox(w)]
    /\ invisible = [w \in Widgets4 |-> FALSE]
    /\ no_layout = [w \in Widgets4 |-> FALSE]
    /\ no_autoresize = [w \in Widgets4 |-> FALSE]
    /\ m_in_layout = [w \in Widgets4 |-> FALSE]
    /\ m_in_draw = [w \in Widgets4 |-> FALSE]
    /\ m_damage = [w \in Widgets4 |-> {}]
    /\ disabled = [w \in Widgets4 |-> FALSE]
    /\ readonly = [w \in Widgets4 |-> FALSE]
    /\ active = [w \in Widgets4 |-> FALSE]
    /\ grab_mouse = [w \in Widgets4 |-> FALSE]
    /\ checked = [w \in Widgets4 |-> FALSE]
    /\ m_align = [w \in Widgets4 |-> InitAlign(w)]
    /\ m_palette = [w \in Widgets4 |-> NoPalette]
    /\ m_font = [w \in Widgets4 |-> FALSE]
    /\ global_palette = FALSE
    /\ global_font = FALSE
    /\ keyboard_focus = NoWidget
    /\ mouse_grab = NoWidget
    /\ ndebug \in BOOLEAN
    /\ aborted = FALSE
    /\ nops = 0
    /\ SpriteInit(DefaultSheet)

NextZorder ==
    \/ \E p, c \in Widgets4 : Add(p, c)
    \/ \E p, c \in Widgets4 : Remove(p, c)
    \/ \E w \in Widgets4 : Hide(w)
    \/ \E w \in Widgets4 : ZorderDown(w)
    \/ \E w \in Widgets4 : ZorderUp(w)
    \/ \E w \in Widgets4 : ZorderBottom(w)
    \/ \E w \in Widgets4 : ZorderTop(w)
    \/ \E p \in Widgets4 : RemoveAll(p)
    \/ \E w \in Widgets4, rank \in 0..3 : ZorderRank(w, rank)

SpecZorder == InitZorder /\ [][NextZorder]_vars

\* ------------------------------------------- drawing a tree of four widgets
\* rects handed to draw: all of the window, a part of it, one that reaches
\* past it, and an empty one
DrawRects == {Rect(0, 0, 4, 4), Rect(1, 1, 1, 1), Rect(2, 2, 4, 4), Rect(0, 0, 0, 0)}

Draw(w, r) ==
    /\ alive[w]
    /\ Run(LAMBDA s : call(s, "draw", w, r))

NextDraw ==
    \/ \E p, c \in Widgets4 : Add(p, c)
    \/ \E w \in Widgets4 : Hide(w)
    \/ \E w \in Widgets4, p \in Points : Move(w, p)
    \/ \E w \in Widgets4, r \in DrawRects : Draw(w, r)

SpecDraw == InitZorder /\ [][NextDraw]_vars

\* ------------------------------------------------------------------ sprites
\* the widget that is the software sprite
SoftSprite == 3

\* plane_set_pan_pos, plane_set_pan_size: the pan registers of the plane
plane_set_pan_pos(s, x, y) ==
    Upd(s, Log([s EXCEPT !.plane.pan.x = x, !.plane.pan.y = y],
               Ev("pan_pos", NoWidget, Rect(x, y, 0, 0), NoRect, FALSE)))
plane_set_pan_size(s, w, h) ==
    Upd(s, Log([s EXCEPT !.plane.pan.w = w, !.plane.pan.h = h],
               Ev("pan_size", NoWidget, Rect(0, 0, w, h), NoRect, FALSE)))
\* plane_apply: the registers as written go to the display controller
plane_apply(s) ==
    Upd(s, Log([s EXCEPT !.plane.shown = s.plane.pan, !.plane.applied = TRUE],
               Ev("apply", NoWidget, s.plane.pan, NoRect, FALSE)))

\* the pan position HardwareSprite::show_frame computes for a frame index
HardwarePan(sh, index) ==
    LET x == sh.framex + index * sh.framew
    IN  IF x + sh.framew >= sh.imagew
        THEN Point(x % sh.imagew,
                   (x \div sh.imagew) * sh.framey + (x \div sh.imagew) * sh.frameh)
        ELSE Point(x, sh.framey)

\* the pan position SoftwareSprite::draw computes for m_index
SoftwarePan(sh, index) ==
    LET x == sh.framex + index * sh.framew
    IN  IF x + sh.framew >= sh.imagew
        THEN Point(x % sh.imagew,
                   (x \div sh.imagew) * sh.framey + (x \div sh.imagew) * sh.frameh)
        ELSE Point(x, sh.framey)

\* HardwareSprite::is_last_frame
HardwareSprite_is_last_frame(s) == s.hw_index >= s.sheet.framecount - 1

\* show_frame of the hardware variant that applies before it writes
HardwareSprite_show_frame_apply_first(s, index) ==
    IF index # s.hw_index
    THEN LET p == HardwarePan(s.sheet, index)
         IN  plane_set_pan_size(
                 plane_set_pan_pos(plane_apply([s EXCEPT !.hw_index = index]), p.x, p.y),
                 s.sheet.framew, s.sheet.frameh)
    ELSE s

\* HardwareSprite::show_frame
HardwareSprite_show_frame(s, index) ==
    IF index # s.hw_index
    THEN LET p == HardwarePan(s.sheet, index)
         IN  plane_apply(
                 plane_set_pan_size(
                     plane_set_pan_pos([s EXCEPT !.hw_index = index], p.x, p.y),
                     s.sheet.framew, s.sheet.frameh))
    ELSE s

\* advance of the hardware variant that does not wrap
HardwareSprite_advance_no_wrap(s) == HardwareSprite_show_frame(s, s.hw_index + 1)

\* HardwareSprite::advance
HardwareSprite_advance(s) ==
    HardwareSprite_show_frame(s, IF s.hw_index + 1 >= s.sheet.framecount
                                 THEN 0 ELSE s.hw_index + 1)

\* show_frame of the software variant without the test of the index
SoftwareSprite_show_frame_always(s, index) ==
    damage_box([s EXCEPT !.sw_index = index], SoftSprite)

\* SoftwareSprite::show_frame
SoftwareSprite_show_frame(s, index) ==
    IF index # s.sw_index
    THEN damage_box([s EXCEPT !.sw_index = index], SoftSprite)
    ELSE s

\* SoftwareSprite::advance
SoftwareSprite_advance(s) ==
    SoftwareSprite_show_frame(s, IF s.sw_index + 1 >= s.sheet.framecount
                                 THEN 0 ELSE s.sw_index + 1)

\* SoftwareSprite::draw: the frame is copied from the sheet to the box's point
SoftwareSprite_draw(s) ==
    Log(s, Ev("draw_image", SoftSprite,
              RectOf(SoftwarePan(s.sheet, s.sw_index), Size(s.sheet.framew, s.sheet.frameh)),
              RectOf(point(s, SoftSprite), Size(0, 0)), FALSE))

\* frame indices handed to show_frame; the last one is past every strip
FrameArgs == 0..6

HardwareAdvance ==
    /\ ~aborted
    /\ Run(LAMBDA s : HardwareSprite_advance(s))
HardwareShowFrame(i) ==
    /\ ~aborted
    /\ Run(LAMBDA s : HardwareSprite_show_frame(s, i))
SoftwareAdvance ==
    /\ alive[SoftSprite]
    /\ Run(LAMBDA s : SoftwareSprite_advance(s))
SoftwareShowFrame(i) ==
    /\ alive[SoftSprite]
    /\ Run(LAMBDA s : SoftwareSprite_show_frame(s, i))
SoftwareDraw ==
    /\ alive[SoftSprite]
    /\ Run(LAMBDA s : SoftwareSprite_draw(s))

InitSprite == InitWidgets /\ \E sh \in Sheets : SpriteInit(sh)

NextSprite ==
    \/ HardwareAdvance
    \/ \E i \in FrameArgs : HardwareShowFrame(i)
    \/ SoftwareAdvance
    \/ \E i \in FrameArgs : SoftwareShowFrame(i)
    \/ SoftwareDraw
    \/ \E w \in Widgets : Hide(w)

SpecSprite == InitSprite /\ [][NextSprite]_vars

\* ================================================================ claims
\* the events of a trace that satisfy P, and the number of them
Sel(tr, P(_)) == SelectSeq(tr, P)
Count(tr, P(_)) == Len(SelectSeq(tr, P))
\* the index of the first event that satisfies P, 0 when there is none
First(tr, P(_)) ==
    IF \E i \in 1..Len(tr) : P(tr[i])
    THEN CHOOSE i \in 1..Len(tr) : P(tr[i]) /\ \A j \in 1..(i - 1) : ~P(tr[j])
    ELSE 0
IsDamage(e) == e.ev = "damage"
\* the two builds of a read of a destroyed widget
Builds == BOOLEAN
\* the widgets below w
Descendants(w) == {d \in Widgets : w \in Ancestors(m_parent, d)}
\* the parents a live, parentless widget w can be added to and stay a tree
Attachable(w) == {p \in Widgets : alive[p] /\ p # w /\ p \notin Descendants(w)}

\* C1: after any sequence of add, remove, detach, z-order and destroy
\* operations no widget is in the child list of two parents, no widget is
\* twice in one child list, and every widget in P's child list has P as its
\* parent pointer.
C1_OneParent ==
    /\ \A p \in Widgets : \A i, j \in 1..Len(m_children[p]) :
           i # j => m_children[p][i] # m_children[p][j]
    /\ \A p, q \in Widgets : \A i \in 1..Len(m_children[p]) : \A j \in 1..Len(m_children[q]) :
           p # q => m_children[p][i] # m_children[q][j]
    /\ \A p \in Widgets : \A i \in 1..Len(m_children[p]) :
           m_parent[m_children[p][i]] = p

\* C1 witness: after MaxOps operations a widget with children is itself a
\* child
C1_Witness ==
    /\ nops = MaxOps
    /\ \E p, q \in Widgets : p # q /\ m_children[p] # <<>> /\ m_children[q] # <<>>
                             /\ m_parent[q] = p

\* C2: set_parent on a widget that has a parent fails with the parent-conflict
\* error (the failed assert in a build with asserts), set_parent of a widget
\* to itself fails too, and either failure leaves every parent pointer as it
\* was and issues no damage; after detach() the parent is cleared and a new
\* set_parent succeeds.
C2_SetParentOnce ==
    ~aborted =>
    \A w \in Widgets : alive[w] =>
        /\ \A p \in Widgets : alive[p] /\ (m_parent[w] # NoWidget \/ p = w) =>
              LET s == set_parent(Cur(FALSE), w, p)
              IN  /\ IF m_parent[w] # NoWidget
                     THEN IF ndebug THEN s.thrown = "widget already has a parent" /\ ~s.aborted
                                    ELSE s.aborted
                     ELSE s.thrown = "cannot add a widget to itself" /\ ~s.aborted
                  /\ s.m_parent = m_parent
                  /\ s.m_damage = m_damage
                  /\ Count(s.trace, IsDamage) = 0
        /\ \A c \in Builds :
              LET d == detach(Cur(c), w)
              IN  ~d.aborted =>
                  /\ d.m_parent[w] = NoWidget
                  /\ \A p \in Attachable(w) :
                        LET s == set_parent([d EXCEPT !.trace = <<>>], w, p)
                        IN  /\ s.thrown = "none"
                            /\ s.m_parent[w] = p
                            /\ Count(s.trace, IsDamage) >= 1

\* C2 witness: a widget with a parent, a second live frame to attach it to,
\* and the attempt fails
C2_Witness ==
    /\ ~aborted
    /\ \E w, p \in Widgets :
          /\ alive[w] /\ alive[p] /\ m_parent[w] \notin {NoWidget, p} /\ p # w
          /\ set_parent(Cur(FALSE), w, p).thrown = "widget already has a parent"
          /\ detach(Cur(FALSE), w).m_parent[w] = NoWidget

\* the inputs of the geometry calls: the ones the actions draw from, and the
\* widget's current value
PointsOf(w) == Points \cup {PointOf(m_box[w])}
SizesOf(w) == Sizes \cup {SizeOf(m_box[w])}
IsLayout(e) == e.ev = "layout"
IsMerge(e) == e.ev = "merge"

\* C3: in every reachable state move(point()), resize(size()) and box(box())
\* of every widget make no damage call, start no layout pass and leave box and
\* user-requested box (and everything else) as they were.
C3_NoopGeometry ==
    ~aborted =>
    \A w \in Widgets : alive[w] =>
        LET c0 == Cur(FALSE)
        IN  /\ call(c0, "move", w, PointOf(m_box[w])) = c0
            /\ call(c0, "resize", w, SizeOf(m_box[w])) = c0
            /\ call(c0, "box", w, m_box[w]) = c0

\* C3 witness: a widget for which a real move damages a screen and runs the
\* parent's layout, while the move to its own point does nothing
C3_Witness ==
    /\ ~aborted
    /\ \E w \in Widgets : \E p \in Points :
          /\ alive[w] /\ m_parent[w] # NoWidget
          /\ Count(call(Cur(FALSE), "move", w, p).trace, IsLayout) > 0
          /\ Count(call(Cur(FALSE), "move", w, p).trace, IsMerge) > 0
          /\ call(Cur(FALSE), "move", w, PointOf(m_box[w])).trace = <<>>

\* what a geometry change of w to the box nb must do before it notifies the
\* parent's layout: damage the old box, store the new one, damage the new one
GeometryOrder(w, tr, nb) ==
    LET pl == First(tr, LAMBDA e : e.ev = "parent_layout" /\ e.w = w)
        pre == SubSeq(tr, 1, pl - 1)
        own == Sel(pre, LAMBDA e : e.w = w /\ e.ev \in {"damage", "geometry"})
    IN  /\ pl > 0
        /\ own = << Ev("damage", w, m_box[w], NoRect, TRUE),
                    Ev("geometry", w, nb, NoRect, FALSE),
                    Ev("damage", w, nb, NoRect, TRUE) >>
        /\ Count(pre, IsLayout) = 0

\* C4: for a visible widget a move to another point, and a resize to another
\* size, make in this order one damage call for the old box, the geometry
\* update, one damage call for the new box and only then the notification of
\* the parent's layout; no layout runs before both damage calls.
C4_DamageBeforeLayout ==
    ~aborted =>
    \A w \in Widgets : \A c \in Builds : alive[w] /\ ~invisible[w] =>
        /\ \A p \in Points : p # PointOf(m_box[w]) =>
              LET s == call(Cur(c), "move", w, p)
              IN  ~s.aborted => GeometryOrder(w, s.trace, RectOf(p, SizeOf(m_box[w])))
        /\ \A sz \in Sizes : sz # SizeOf(m_box[w]) =>
              LET s == call(Cur(c), "resize", w, sz)
              IN  ~s.aborted => GeometryOrder(w, s.trace, RectOf(PointOf(m_box[w]), sz))

\* C4 witness: a visible child whose move damages a screen twice and then
\* runs its parent's layout
C4_Witness ==
    /\ ~aborted
    /\ \E w \in Widgets : \E p \in Points :
          LET tr == call(Cur(FALSE), "move", w, p).trace
          IN  /\ alive[w] /\ ~invisible[w] /\ m_parent[w] # NoWidget
              /\ p # PointOf(m_box[w])
              /\ Count(tr, IsMerge) >= 2
              /\ \E i \in 1..Len(tr) : tr[i].ev = "layout" /\ tr[i].w = m_parent[w]

\* C5: hide() then show() of a visible widget calls damage on the widget
\* exactly twice, both times for its box: once while it is still visible,
\* before the invisible flag is set, and once after the flag is cleared;
\* hide() of a hidden widget and show() of a visible one do nothing.
C5_HideShowDamage ==
    ~aborted =>
    \A w \in Widgets : \A c \in Builds : alive[w] =>
        /\ ~invisible[w] =>
              LET s == show(hide(Cur(c), w), w)
                  own == Sel(s.trace, LAMBDA e : e.w = w /\ e.ev \in {"damage", "invisible"})
              IN  ~s.aborted =>
                  own = << Ev("damage", w, m_box[w], NoRect, TRUE),
                           Ev("invisible", w, NoRect, NoRect, TRUE),
                           Ev("invisible", w, NoRect, NoRect, FALSE),
                           Ev("damage", w, m_box[w], NoRect, TRUE) >>
        /\ invisible[w] => hide(Cur(c), w) = Cur(c)
        /\ ~invisible[w] => show(Cur(c), w) = Cur(c)

\* C5 witness: a visible child whose two damage calls both reach the screen
C5_Witness ==
    /\ ~aborted
    /\ \E w \in Widgets :
          /\ alive[w] /\ ~invisible[w] /\ m_parent[w] # NoWidget
          /\ Count(show(hide(Cur(FALSE), w), w).trace, IsMerge) = 2

\* C6: damage(rect) with an empty rect, or on a widget whose invisible flag is
\* set, changes no dirty set (nor anything else) and makes no further call:
\* nothing is forwarded to the parent.
C6_DamageNoop ==
    ~aborted =>
    \A w \in Widgets : \A r \in DamageRects \cup {m_box[w]} : \A c \in Builds :
        alive[w] /\ (RectEmpty(r) \/ invisible[w]) =>
            call(Cur(c), "damage", w, r)
                = Log(Cur(c), Ev("damage", w, r, NoRect, ~invisible[w]))

\* C6 witness: a hidden child of a visible screen owner that is not drawing is
\* damaged with a rect that is not empty
C6_Witness ==
    /\ ~aborted
    /\ \E w \in Widgets : \E r \in DamageRects :
          /\ alive[w] /\ invisible[w] /\ ~RectEmpty(r)
          /\ m_parent[w] # NoWidget /\ has_screen(m_parent[w])
          /\ ~invisible[m_parent[w]] /\ ~m_in_draw[m_parent[w]]
          /\ call(Cur(FALSE), "damage", w, r).m_damage = m_damage

\* the rects damage is called with: the ones the Damage action draws from,
\* and the widget's box
RectsOf(w) == DamageRects \cup {m_box[w]}
\* the nearest ancestor of w that owns a screen, NoWidget when there is none
RECURSIVE ScreenAncestor(_)
ScreenAncestor(w) ==
    IF m_parent[w] = NoWidget THEN NoWidget
    ELSE IF has_screen(m_parent[w]) THEN m_parent[w]
    ELSE ScreenAncestor(m_parent[w])
AllAlive(S) == \A a \in S : alive[a]
\* the damage calls a damage(r) on w leads to, one per widget on the way up:
\* the climb ends at a widget that is invisible, owns a screen or has no parent
RECURSIVE Climb(_, _)
Climb(w, r) ==
    << Ev("damage", w, r, NoRect, ~invisible[w]) >> \o
    ( IF ~invisible[w] /\ ~has_screen(w) /\ m_parent[w] # NoWidget
      THEN Climb(m_parent[w], Rect(r.x + m_box[m_parent[w]].x,
                                   r.y + m_box[m_parent[w]].y, r.w, r.h))
      ELSE <<>> )

\* C7 as claimed: damage(rect) of a visible widget without a screen, with a
\* rect that is not empty, is forwarded once to the parent with the rect moved
\* by the parent's point, always arrives at the nearest ancestor that owns a
\* screen, and never stores damage in a widget without a screen.
C7_AlwaysReachesScreen ==
    ~aborted =>
    \A w \in Widgets : \A r \in RectsOf(w) :
        ( /\ alive[w] /\ ~invisible[w] /\ ~has_screen(w) /\ ~RectEmpty(r)
          /\ AllAlive(Ancestors(m_parent, w)) ) =>
            LET s == call(Cur(FALSE), "damage", w, r)
                A == ScreenAncestor(w)
            IN  /\ m_parent[w] # NoWidget =>
                      Count(s.trace, LAMBDA e : e.ev = "damage" /\ e.w = m_parent[w]) = 1
                /\ A # NoWidget =>
                      Count(s.trace, LAMBDA e : e.ev = "damage" /\ e.w = A) = 1
                /\ \A x \in Widgets : ~has_screen(x) => s.m_damage[x] = m_damage[x]

\* C7 as amended: the damage climbs parent by parent, the rect moved by each
\* parent's point, as long as the widgets on the way are visible: it arrives
\* at the nearest ancestor that owns a screen exactly when every widget in
\* between is visible, and is dropped at a hidden widget or at a widget with
\* neither screen nor parent; no widget without a screen stores damage.
C7_ClimbsWhileVisible ==
    ~aborted =>
    \A w \in Widgets : \A r \in RectsOf(w) : \A c \in Builds :
        alive[w] /\ ~invisible[w] /\ ~has_screen(w) /\ ~RectEmpty(r) =>
            LET s == call(Cur(c), "damage", w, r)
                A == ScreenAncestor(w)
            IN  ~s.aborted =>
                /\ Sel(s.trace, IsDamage) = Climb(w, r)
                /\ A # NoWidget =>
                      ( Count(s.trace, LAMBDA e : e.ev = "damage" /\ e.w = A) = 1
                        <=> \A x \in Ancestors(m_parent, w) :
                                A \in Ancestors(m_parent, x) => ~invisible[x] )
                /\ \A x \in Widgets : ~has_screen(x) => s.m_damage[x] = m_damage[x]

\* C7 witness: the damage of a grandchild climbs over a parent that does not
\* sit at the origin into the dirty set of the window
C7_Witness ==
    /\ ~aborted
    /\ \E w \in Widgets :
          /\ alive[w] /\ ~invisible[w] /\ m_parent[w] # NoWidget
          /\ m_parent[m_parent[w]] # NoWidget /\ has_screen(m_parent[m_parent[w]])
          /\ m_box[m_parent[w]].x # 0
          /\ Count(call(Cur(FALSE), "damage", w, m_box[w]).trace, IsMerge) = 1
          /\ Len(Climb(w, m_box[w])) = 3

\* the box of x in its own coordinates
LocalBox(s, x) == Rect(0, 0, s.m_box[x].w, s.m_box[x].h)

\* C8: every rect merged into the dirty set of a screen owner lies inside
\* that widget's box in local coordinates, whatever rect was asked for, also
\* one partly or wholly outside the box, and whatever operation issued it.
C8_DamageInsideBox ==
    ~aborted =>
    \A w \in Widgets : \A c \in Builds : alive[w] =>
        /\ \A r \in RectsOf(w) :
              LET s == call(Cur(c), "damage", w, r)
              IN  \A i \in 1..Len(s.trace) :
                      s.trace[i].ev = "merge" =>
                          Contains(LocalBox(s, s.trace[i].w), s.trace[i].rect)
        /\ \A sz \in Sizes :
              LET s == call(Cur(c), "resize", w, sz)
              IN  \A i \in 1..Len(s.trace) :
                      s.trace[i].ev = "merge" =>
                          Contains(Rect(0, 0, s.trace[i].clip.w, s.trace[i].clip.h),
                                   s.trace[i].rect)

\* C8 witness: a rect that sticks out of the window's box is cut to the part
\* inside, and a rect far outside leaves nothing to merge
C8_Witness ==
    /\ ~aborted
    /\ \E w \in Widgets : \E r1, r2 \in DamageRects :
          LET t1 == call(Cur(FALSE), "damage", w, r1).trace
              t2 == call(Cur(FALSE), "damage", w, r2).trace
          IN  /\ alive[w] /\ m_parent[w] # NoWidget
              /\ \E i \in 1..Len(t1) : /\ t1[i].ev = "merge"
                                       /\ ~RectEmpty(t1[i].rect)
                                       /\ SizeOf(t1[i].rect) # SizeOf(r1)
              /\ \E i \in 1..Len(t2) : t2[i].ev = "merge" /\ RectEmpty(t2[i].rect)

\* a call of damage arrives at w's add_damage with something to add
Attempt(tr, x) ==
    \E i \in 1..Len(tr) : /\ tr[i].ev = "damage" /\ tr[i].w = x
                          /\ tr[i].flag /\ ~RectEmpty(tr[i].rect)
DirtyKept(s, x) ==
    /\ s.m_damage[x] = m_damage[x]
    /\ Count(s.trace, LAMBDA e : e.ev = "merge" /\ e.w = x) = 0
    /\ Attempt(s.trace, x) /\ ~ndebug =>
          /\ s.aborted
          /\ s.trace[Len(s.trace)] = Ev("assert", x, NoRect, NoRect, FALSE)

\* C9: while a widget is mid-draw no operation merges a rect into its dirty
\* set: the set stays as it is, and in a build with asserts the attempt ends
\* the process at the failed assert(!m_in_draw).
C9_NoDamageInDraw ==
    ~aborted =>
    \A x \in Widgets : m_in_draw[x] =>
        \A w \in Widgets : \A c \in Builds : alive[w] =>
            /\ \A r \in RectsOf(w) : DirtyKept(call(Cur(c), "damage", w, r), x)
            /\ \A p \in Points : DirtyKept(call(Cur(c), "move", w, p), x)
            /\ \A sz \in Sizes : DirtyKept(call(Cur(c), "resize", w, sz), x)
            /\ DirtyKept(hide(Cur(c), w), x)
            /\ DirtyKept(show(Cur(c), w), x)
            /\ DirtyKept(detach(Cur(c), w), x)

\* C9 witness: the window is mid-draw and the move of a visible child tries
\* to damage it
C9_Witness ==
    /\ ~aborted
    /\ \E x, w \in Widgets : \E p \in Points :
          /\ m_in_draw[x] /\ alive[w] /\ m_parent[w] = x /\ ~invisible[w]
          /\ Attempt(call(Cur(FALSE), "move", w, p).trace, x)

\* the layout passes of w that have been entered and not left before event i
InFlight(tr, i, w) ==
    Count(SubSeq(tr, 1, i - 1), LAMBDA e : e.ev = "layout" /\ e.w = w)
        - Count(SubSeq(tr, 1, i - 1), LAMBDA e : e.ev = "layout_end" /\ e.w = w)
OnePass(tr) ==
    \A i \in 1..Len(tr) : tr[i].ev = "layout" => InFlight(tr, i, tr[i].w) = 0

\* C10: no layout() pass of a widget, with children or without, is entered
\* and run while an earlier pass of the same widget is still on the call
\* stack.
C10_OneLayoutInFlight ==
    ~aborted =>
    \A w \in Widgets : alive[w] =>
        /\ OnePass(call(Cur(FALSE), "layout", w, NoRect).trace)
        /\ OnePass(autoresize(Cur(FALSE), w, TRUE).trace)
        /\ \A p \in Points : OnePass(call(Cur(FALSE), "move", w, p).trace)
        /\ \A sz \in Sizes : OnePass(call(Cur(FALSE), "resize", w, sz).trace)

\* the call chain ran out of stack
Overflowed(s) == Count(s.trace, LAMBDA e : e.ev = "overflow") > 0
\* the call came back, within the stack, with no widget left mid-layout
Returned(s) ==
    /\ ~Overflowed(s)
    /\ ~s.aborted => \A x \in Widgets : ~s.m_in_layout[x]

\* C11: every call of move, resize, box, layout, autoresize(true), remove and
\* of a z-order operation comes back: the calls between resize/move,
\* parent_layout and layout stay within MaxDepth frames, and when the
\* outermost call has returned no widget's m_in_layout is set.
C11_CallsReturn ==
    ~aborted =>
    /\ \A x \in Widgets : ~m_in_layout[x]
    /\ \A w \in Widgets : alive[w] =>
          /\ \A p \in Points : Returned(call(Cur(FALSE), "move", w, p))
          /\ \A sz \in Sizes : Returned(call(Cur(FALSE), "resize", w, sz))
          /\ \A p \in Points : \A sz \in Sizes :
                Returned(call(Cur(FALSE), "box", w, RectOf(p, sz)))
          /\ Returned(call(Cur(FALSE), "layout", w, NoRect))
          /\ Returned(autoresize([Cur(FALSE) EXCEPT !.no_autoresize[w] = TRUE], w, TRUE))
          /\ \A ch \in Widgets : alive[ch] => Returned(remove(Cur(FALSE), w, ch))
          /\ Returned(zorder_down(Cur(FALSE), w))
          /\ Returned(zorder_up(Cur(FALSE), w))
          /\ Returned(zorder_bottom(Cur(FALSE), w))
          /\ Returned(zorder_top(Cur(FALSE), w))

\* C11 witness: a layout pass of a leaf that runs a second time inside
\* itself, through resize, parent_layout and the layout of its parent, and
\* still comes back with no widget mid-layout
C11_Witness ==
    /\ ~aborted
    /\ \E w \in Widgets :
          LET s == call(Cur(FALSE), "layout", w, NoRect)
          IN  /\ alive[w] /\ m_parent[w] # NoWidget
              /\ ~OnePass(s.trace)
              /\ Returned(s) /\ ~s.aborted

\* the display position of w's origin: its point and those of its ancestors
RECURSIVE OriginOf(_)
OriginOf(w) ==
    IF m_parent[w] = NoWidget THEN PointOf(m_box[w])
    ELSE Point(OriginOf(m_parent[w]).x + m_box[w].x, OriginOf(m_parent[w]).y + m_box[w].y)
\* the display point p in the coordinates of w's children
LocalOf(w, p) == Point(p.x - OriginOf(w).x, p.y - OriginOf(w).y)
Eligible(ch) == ~invisible[ch] /\ ~disabled[ch]
\* child i of w qualifies for a pointer event at the display point p
Qualifies(w, i, p) ==
    /\ Eligible(m_children[w][i])
    /\ IntersectPoint(m_box[m_children[w][i]], LocalOf(w, p))
\* the children of w that handle() was called on, in the order of the calls
Delivered(tr, w) ==
    LET calls == Sel(tr, LAMBDA e : e.ev = "handle" /\ e.w # w /\ m_parent[e.w] = w)
    IN  [i \in 1..Len(calls) |-> calls[i].w]
PointerInputIds == InputIds \cap PointerIds
KeyInputIds == InputIds \cap KeyIds

\* C12: handle() of a pointer event on a widget with children calls handle()
\* on at most one child: the last one in the child list that is visible and
\* not disabled and whose box contains the event point in the widget's local
\* coordinates; ineligible children on top are skipped, children below the
\* receiver get nothing, and no child gets the event when none qualifies.
C12_PointerToTopmost ==
    ~aborted =>
    \A w \in Widgets : \A id \in PointerInputIds : \A p \in EventPoints : \A q \in Quitters :
        alive[w] /\ m_children[w] # <<>> /\ AllAlive(Ancestors(m_parent, w)) =>
            LET s == handle_event(Cur(FALSE), w, Event(id, p, FALSE), q)
                ok == {i \in 1..Len(m_children[w]) : Qualifies(w, i, p)}
            IN  ~s.aborted =>
                Delivered(s.trace, w) =
                    IF ok = {} THEN <<>>
                    ELSE << m_children[w][CHOOSE i \in ok : \A j \in ok : j <= i] >>

\* C12 witness: the child on top holds the point but is hidden or disabled,
\* and the event goes to the child below it
C12_Witness ==
    /\ ~aborted
    /\ \E w \in Widgets : \E p \in EventPoints :
          /\ alive[w] /\ Len(m_children[w]) = 2
          /\ ~Eligible(m_children[w][2])
          /\ IntersectPoint(m_box[m_children[w][2]], LocalOf(w, p))
          /\ Delivered(handle_event(Cur(FALSE), w, Event("raw_pointer_down", p, FALSE), {}).trace, w)
                = << m_children[w][1] >>

\* the eligible children of w, topmost first
RECURSIVE RevEligible(_, _)
RevEligible(w, i) ==
    IF i < 1 THEN <<>>
    ELSE (IF Eligible(m_children[w][i]) THEN << m_children[w][i] >> ELSE <<>>)
         \o RevEligible(w, i - 1)
\* a keyboard event not quit when handle() of x is entered is quit when it
\* returns: x's own handlers quit it, or the handling of an eligible child does
RECURSIVE QuitsUnder(_, _)
QuitsUnder(x, q) ==
    \/ x \in q
    \/ \E i \in 1..Len(m_children[x]) :
          Eligible(m_children[x][i]) /\ QuitsUnder(m_children[x][i], q)
\* seq up to and including its first element that satisfies P, all of it
\* when there is none
UpTo(seq, P(_)) ==
    IF \E i \in 1..Len(seq) : P(seq[i])
    THEN SubSeq(seq, 1, CHOOSE i \in 1..Len(seq) : P(seq[i]) /\ \A j \in 1..(i - 1) : ~P(seq[j]))
    ELSE seq

\* C13: handle() of a keyboard event (down, up, repeat) calls handle() on the
\* eligible children in reverse z-order, topmost first, and on every one of
\* them unless the handling of a child leaves the event quit: then the
\* children after that one get nothing.  Ineligible children get nothing.
\* (When the widget's own handlers have quit the event, the call on the first
\* eligible child returns at once and the loop ends there.)
C13_KeysToAllUntilQuit ==
    ~aborted =>
    \A w \in Widgets : \A id \in KeyInputIds : \A q \in Quitters :
        alive[w] /\ m_children[w] # <<>> =>
            LET s == handle_event(Cur(FALSE), w, Event(id, Point(0, 0), FALSE), q)
                all == RevEligible(w, Len(m_children[w]))
            IN  ~s.aborted =>
                /\ Delivered(s.trace, w)
                      = UpTo(all, LAMBDA ch : w \in q \/ QuitsUnder(ch, q))
                /\ w \notin q /\ (\A i \in 1..Len(all) : ~QuitsUnder(all[i], q))
                      => Delivered(s.trace, w) = all
                /\ s.event.quit <=> QuitsUnder(w, q)

\* C13 witness: two eligible children; both get a keyboard event nobody
\* quits, topmost first, and only the topmost gets it when its handler quits
C13_Witness ==
    /\ ~aborted
    /\ \E w \in Widgets :
          LET top == m_children[w][2]
              low == m_children[w][1]
              e == Event("keyboard_down", Point(0, 0), FALSE)
          IN  /\ alive[w] /\ Len(m_children[w]) = 2
              /\ Eligible(top) /\ Eligible(low)
              /\ Delivered(handle_event(Cur(FALSE), w, e, {}).trace, w) = << top, low >>
              /\ Delivered(handle_event(Cur(FALSE), w, e, {top}).trace, w) = << top >>

\* what a widget other than w did for the event: handlers run, active or
\* grab changed
Touched(tr, w) ==
    Count(tr, LAMBDA e : e.w # w /\ e.ev \in {"handler", "active", "grab"})

\* C14: when the handlers of the widget handle() is called on mark the event
\* quit, no child and no deeper descendant runs a handler, changes its active
\* flag or takes the grab for that event; and an event that is quit already
\* when handle() is entered runs no handler at all and changes nothing.
C14_QuitStopsDispatch ==
    ~aborted =>
    \A w \in Widgets : \A id \in InputIds : \A p \in EventPoints : alive[w] =>
        /\ LET s == handle_event(Cur(FALSE), w, Event(id, p, FALSE), {w})
           IN  ~s.aborted =>
               /\ Touched(s.trace, w) = 0
               /\ \A x \in Widgets \ {w} : s.active[x] = active[x]
               /\ s.mouse_grab \in {mouse_grab, w}
               /\ s.event.quit
        /\ \A q \in Quitters :
              LET c0 == [Cur(FALSE) EXCEPT !.event = Event(id, p, TRUE), !.quitters = q]
              IN  handle_event(Cur(FALSE), w, Event(id, p, TRUE), q)
                      = Log(c0, Ev("handle", w, NoRect, NoRect, TRUE))

\* C14 witness: a child that takes the grab and turns active on a pointer
\* down, and does neither when the handler of its parent quits the event
C14_Witness ==
    /\ ~aborted
    /\ \E w \in Widgets : \E p \in EventPoints :
          LET e == Event("raw_pointer_down", p, FALSE)
          IN  /\ alive[w] /\ m_children[w] # <<>>
              /\ Touched(handle_event(Cur(FALSE), w, e, {}).trace, w) >= 3
              /\ Delivered(handle_event(Cur(FALSE), w, e, {w}).trace, w) # <<>>
              /\ Touched(handle_event(Cur(FALSE), w, e, {w}).trace, w) = 0

\* C15: every call of handle() with a raw pointer-up event returns with the
\* widget's active flag clear, whatever its flags and whether or not the
\* event is quit already when handle() is entered.
C15_PointerUpClearsActive ==
    ~aborted =>
    \A w \in Widgets : \A p \in EventPoints : \A quit \in BOOLEAN : \A q \in Quitters :
        alive[w] =>
            LET s == handle_event(Cur(FALSE), w, Event("raw_pointer_up", p, quit), q)
            IN  ~s.aborted => ~s.active[w]

InNoList(s, w) == \A p \in Widgets : \A i \in 1..Len(s.m_children[p]) : s.m_children[p][i] # w

\* C16: after a widget is destroyed it is in no child list, and neither the
\* keyboard-focus holder nor the mouse-grab holder refers to it; a holder
\* that referred to another widget, or to none, is as it was.
C16_DestroyClearsReferences ==
    ~aborted =>
    /\ \A w \in Widgets : ~alive[w] =>
          InNoList(Cur(FALSE), w) /\ keyboard_focus # w /\ mouse_grab # w
    /\ \A w \in Widgets : \A c \in Builds : alive[w] =>
          LET s == destroy(Cur(c), w)
          IN  ~s.aborted =>
              /\ ~s.alive[w]
              /\ InNoList(s, w)
              /\ s.keyboard_focus = IF keyboard_focus = w THEN NoWidget ELSE keyboard_focus
              /\ s.mouse_grab = IF mouse_grab = w THEN NoWidget ELSE mouse_grab

\* C16 witness: a child that holds the focus or the grab; its destruction
\* takes it out of the child list and clears the holder, the destruction of
\* its parent leaves the holder with the child
C16_Witness ==
    /\ ~aborted
    /\ \E w, x \in Widgets :
          /\ w # x /\ alive[w] /\ alive[x] /\ m_parent[w] = x
          /\ keyboard_focus = w \/ mouse_grab = w
          /\ ~InNoList(Cur(FALSE), w) /\ InNoList(destroy(Cur(FALSE), w), w)
          /\ destroy(Cur(FALSE), w).keyboard_focus = NoWidget
          /\ destroy(Cur(FALSE), w).mouse_grab = NoWidget
          /\ destroy(Cur(FALSE), x).keyboard_focus = keyboard_focus
          /\ destroy(Cur(FALSE), x).mouse_grab = mouse_grab

\* C17: when the widget that holds the keyboard focus is disabled by
\* disable(), or made read-only by readonly(true), the keyboard-focus holder
\* is cleared; disable() and readonly(true) of any other widget leave the
\* holder as it was.
C17_FocusClearedOnDisable ==
    ~aborted =>
    \A w \in Widgets : \A c \in Builds : alive[w] =>
        LET d == disable(Cur(c), w)
            r == set_readonly(Cur(c), w, TRUE)
        IN  /\ ~d.aborted /\ ~disabled[w] =>
                  /\ d.disabled[w]
                  /\ d.keyboard_focus = IF keyboard_focus = w THEN NoWidget ELSE keyboard_focus
            /\ ~r.aborted /\ ~readonly[w] =>
                  /\ r.readonly[w]
                  /\ r.keyboard_focus = IF keyboard_focus = w THEN NoWidget ELSE keyboard_focus
            /\ keyboard_focus # w =>
                  d.keyboard_focus = keyboard_focus /\ r.keyboard_focus = keyboard_focus

\* C17 witness: a child holds the focus; disable() and readonly(true) on it
\* clear the holder, on its parent they leave it
C17_Witness ==
    /\ ~aborted
    /\ \E w, x \in Widgets :
          /\ alive[w] /\ alive[x] /\ m_parent[w] = x
          /\ keyboard_focus = w /\ ~disabled[w] /\ ~readonly[w]
          /\ disable(Cur(FALSE), w).keyboard_focus = NoWidget
          /\ set_readonly(Cur(FALSE), w, TRUE).keyboard_focus = NoWidget
          /\ disable(Cur(FALSE), x).keyboard_focus = w
          /\ set_readonly(Cur(FALSE), x, TRUE).keyboard_focus = w

\* C18: when the widget that holds the mouse grab is disabled by disable(),
\* or made read-only by readonly(true), the mouse-grab holder is cleared, so
\* that the holder is never a disabled or read-only widget.
C18_GrabClearedOnDisable ==
    ~aborted =>
    \A w \in Widgets : alive[w] /\ mouse_grab = w =>
        LET d == disable(Cur(FALSE), w)
            r == set_readonly(Cur(FALSE), w, TRUE)
        IN  /\ ~d.aborted /\ ~disabled[w] => d.mouse_grab = NoWidget
            /\ ~r.aborted /\ ~readonly[w] => r.mouse_grab = NoWidget

\* seq without its element at index i
Without(seq, i) == SubSeq(seq, 1, i - 1) \o SubSeq(seq, i + 1, Len(seq))
\* the widgets that can be added to the frame p: live, without a parent, and
\* not p or above it
Addable(p) == {a \in DOMAIN alive : /\ alive[a] /\ m_parent[a] = NoWidget /\ a # p
                                    /\ a \notin Ancestors(m_parent, p)}

\* C19: the z-order query of the k-th child of a frame (k counted from 0)
\* returns k, its index in the child list; children added one after the other
\* are at the end of the list in the order they were added, the last one
\* topmost, and the query returns these indices for them.
C19_ZorderIsInsertionOrder ==
    ~aborted =>
    \A p \in DOMAIN alive : alive[p] =>
        /\ \A k \in 1..Len(m_children[p]) :
              /\ zorder_child(Cur(FALSE), p, m_children[p][k]) = k - 1
              /\ zorder(Cur(FALSE), m_children[p][k]) = k - 1
        /\ \A a, b \in Addable(p) : a # b =>
              LET s == add(add(Cur(FALSE), p, a), p, b)
                  n == Len(m_children[p])
              IN  ~s.aborted =>
                  /\ s.m_children[p] = m_children[p] \o << a, b >>
                  /\ zorder(s, a) = n /\ zorder(s, b) = n + 1
                  /\ \A k \in 1..(n + 2) : zorder_child(s, p, s.m_children[p][k]) = k - 1

\* C19 witness: a frame with three children added one after the other
C19_Witness ==
    /\ ~aborted
    /\ nops = 3
    /\ \E p \in DOMAIN alive :
          /\ alive[p] /\ Len(m_children[p]) = 3
          /\ zorder(Cur(FALSE), m_children[p][1]) = 0
          /\ zorder(Cur(FALSE), m_children[p][2]) = 1
          /\ zorder(Cur(FALSE), m_children[p][3]) = 2

\* a call of layout() on p starts a pass: p is visible and not empty
CanLayOut(p) == ~invisible[p] /\ ~SizeEmpty(SizeOf(m_box[p]))
LayoutsOf(tr, p) == Count(tr, LAMBDA e : e.ev = "layout" /\ e.w = p)

\* C20 as claimed: zorder_top(child_k) on a frame with N children, for every
\* N, moves the child to index N-1, keeps the order of the other children,
\* adds and drops none, and lays the frame out.
C20_TopAlwaysLaysOut ==
    ~aborted =>
    \A p \in DOMAIN alive : \A k \in 1..Len(m_children[p]) : alive[p] =>
        LET s == zorder_top_child(Cur(FALSE), p, m_children[p][k])
        IN  ~s.aborted =>
            /\ s.m_children[p] = Without(m_children[p], k) \o << m_children[p][k] >>
            /\ CanLayOut(p) => LayoutsOf(s.trace, p) >= 1

\* C20 as amended: zorder_top(child_k) on a frame with N children moves the
\* child to index N-1, keeps the order of the other children, adds and drops
\* none, and leaves every other child list alone; with two children or more
\* it lays the frame out, also when the child is on top already; with one
\* child it returns at once, without a layout.
C20_TopLaysOutFromTwo ==
    ~aborted =>
    \A p \in DOMAIN alive : \A k \in 1..Len(m_children[p]) : alive[p] =>
        LET ch == m_children[p][k]
            s == zorder_top_child(Cur(FALSE), p, ch)
            m == zorder_top(Cur(FALSE), ch)
        IN  ~s.aborted =>
            /\ s.m_children = [m_children EXCEPT ![p] = Without(@, k) \o << ch >>]
            /\ zorder(s, ch) = Len(m_children[p]) - 1
            /\ m = s
            /\ Len(m_children[p]) >= 2 /\ CanLayOut(p) => LayoutsOf(s.trace, p) = 1
            /\ Len(m_children[p]) = 1 => s = Cur(FALSE)

\* C20 witness: the bottom child of three goes on top, the other two keep
\* their order, and the frame is laid out
C20_Witness ==
    /\ ~aborted
    /\ \E p \in DOMAIN alive :
          LET s == zorder_top_child(Cur(FALSE), p, m_children[p][1])
          IN  /\ alive[p] /\ Len(m_children[p]) = 3 /\ CanLayOut(p)
              /\ s.m_children[p] = << m_children[p][2], m_children[p][3], m_children[p][1] >>
              /\ LayoutsOf(s.trace, p) = 1

\* the widgets from w up to the root, w first
RECURSIVE ChainOf(_, _)
ChainOf(par, w) == IF par[w] = NoWidget THEN << w >> ELSE << w >> \o ChainOf(par, par[w])
RECURSIVE SumX(_, _)
SumX(bx, chain) == IF chain = << >> THEN 0 ELSE bx[Head(chain)].x + SumX(bx, Tail(chain))
RECURSIVE SumY(_, _)
SumY(bx, chain) == IF chain = << >> THEN 0 ELSE bx[Head(chain)].y + SumY(bx, Tail(chain))
\* every widget from w up to the root is alive
ChainAlive(w) == \A i \in 1..Len(ChainOf(m_parent, w)) : alive[ChainOf(m_parent, w)[i]]
\* points handed to the conversions
LocalPoints == {Point(0, 0), Point(2, 1), Point(0 - 3, 5)}

\* C21: for every widget whose chain of parents is alive, at any depth, and
\* every point p, display_to_local(local_to_display(p)) = p, and
\* display_origin() is the sum of the points of the widget and of all its
\* ancestors up to the root.
C21_DisplayRoundTrip ==
    ~aborted =>
    \A w \in Widgets : ChainAlive(w) =>
        /\ \A p \in LocalPoints :
              display_to_local(Cur(FALSE), w, local_to_display(Cur(FALSE), w, p)) = p
        /\ display_origin(Cur(FALSE), w) = Point(SumX(m_box, ChainOf(m_parent, w)),
                                                 SumY(m_box, ChainOf(m_parent, w)))
        /\ local_to_display(Cur(FALSE), w, Point(0, 0)) = display_origin(Cur(FALSE), w)

\* C21 witness: a widget two levels below a root that was moved away from the
\* display's origin; its display origin differs from its own point and from
\* its parent's
C21_Witness ==
    /\ ~aborted
    /\ \E w \in Widgets :
          /\ ChainAlive(w) /\ Len(ChainOf(m_parent, w)) = 3
          /\ m_box[ChainOf(m_parent, w)[3]].x # 0
          /\ m_box[ChainOf(m_parent, w)[2]].x # 0
          /\ display_origin(Cur(FALSE), w).x = m_box[w].x + m_box[ChainOf(m_parent, w)[2]].x
                                               + m_box[ChainOf(m_parent, w)[3]].x
          /\ display_to_local(Cur(FALSE), w, local_to_display(Cur(FALSE), w, Point(2, 1)))
                 = Point(2, 1)

\* max(previous dimension, minimum-size hint), per dimension
GrownSize(w) == Size(Max(m_box[w].w, min_size_hint(w).w), Max(m_box[w].h, min_size_hint(w).h))

\* C22: layout() on a widget with no children and auto-resize enabled leaves
\* each dimension equal to max(previous dimension, minimum-size hint); it
\* never shrinks the widget, and with auto-resize disabled it leaves the size
\* unchanged.
C22_LeafGrowsToHint ==
    ~aborted =>
    \A w \in Widgets : alive[w] /\ m_children[w] = << >> =>
        LET s == layout(Cur(FALSE), w)
        IN  ~s.aborted =>
            IF no_autoresize[w]
            THEN s.m_box[w] = m_box[w]
            ELSE /\ SizeOf(s.m_box[w]) = GrownSize(w)
                 /\ s.m_box[w].w >= m_box[w].w /\ s.m_box[w].h >= m_box[w].h

\* the content area of w is empty: the box is no larger than twice the moat
\* in one dimension at least
ContentEmpty(w) == m_box[w].w <= 2 * moat(w) \/ m_box[w].h <= 2 * moat(w)
\* the memory as it is, and as it is while a layout pass of w is in flight
Entries(w) == {Cur(FALSE), [Cur(FALSE) EXCEPT !.m_in_layout[w] = TRUE]}
\* the call did nothing but start and end a pass of w itself
OnlyOwnPass(tr, w) ==
    \A i \in 1..Len(tr) : tr[i].w = w /\ tr[i].ev \in {"layout", "layout_end"}

\* C23: layout() on a container that is invisible, or whose content area is
\* empty, or that is mid-layout already, does no work: no child's layout is
\* called, no box changes, no damage is issued and nothing fails.
C23_LayoutSkips ==
    ~aborted =>
    \A w \in Widgets : alive[w] /\ m_children[w] # << >> =>
        \A s0 \in Entries(w) :
            (invisible[w] \/ ContentEmpty(w) \/ s0.m_in_layout[w]) =>
                LET s == layout(s0, w)
                IN  /\ ~s.aborted /\ ~s.ub /\ s.thrown = "none"
                    /\ OnlyOwnPass(s.trace, w)
                    /\ s.m_box = m_box /\ s.m_damage = m_damage
                    /\ s.m_user_requested_box = m_user_requested_box
                    /\ s.m_in_layout = s0.m_in_layout
                    /\ (invisible[w] \/ s0.m_in_layout[w] \/ SizeEmpty(SizeOf(m_box[w])))
                           => s.trace = << >>

\* C23 witness: a visible container with a box that is not empty but no larger
\* than twice its moat: a pass starts and ends with no child laid out
C23_Witness ==
    /\ ~aborted
    /\ \E w \in Widgets :
          /\ alive[w] /\ m_children[w] # << >> /\ ~invisible[w]
          /\ ContentEmpty(w) /\ ~SizeEmpty(SizeOf(m_box[w]))
          /\ LayoutsOf(layout(Cur(FALSE), w).trace, w) = 1
          /\ layout(Cur(FALSE), w).m_box = m_box

\* the index advance() moves to from index i on a strip of n frames
NextFrame(i, n) == IF i < n - 1 THEN i + 1 ELSE 0
\* k calls of advance() on both sprites
RECURSIVE AdvanceTimes(_, _)
AdvanceTimes(s, k) ==
    IF k = 0 THEN s
    ELSE AdvanceTimes(SoftwareSprite_advance(HardwareSprite_advance(s)), k - 1)

\* C24: both sprites start at frame 0 of a strip of N >= 1 frames, and from
\* an index within 0..N-1 every call of advance(), and every sequence of such
\* calls, leaves the index within 0..N-1: i goes to i+1 below the last frame
\* and to 0 from the last frame; is_last_frame() of the hardware variant is
\* true exactly at index N-1.
C24_AdvanceStaysInStrip ==
    LET n == sheet.framecount
    IN  /\ n >= 1
        /\ nops = 0 => hw_index = 0 /\ sw_index = 0
        /\ hw_index \in 0..(n - 1) =>
              /\ HardwareSprite_advance(Cur(FALSE)).hw_index = NextFrame(hw_index, n)
              /\ HardwareSprite_is_last_frame(Cur(FALSE)) <=> hw_index = n - 1
              /\ \A k \in 0..(n + 1) : AdvanceTimes(Cur(FALSE), k).hw_index \in 0..(n - 1)
              /\ AdvanceTimes(Cur(FALSE), n).hw_index = hw_index
        /\ sw_index \in 0..(n - 1) =>
              /\ SoftwareSprite_advance(Cur(FALSE)).sw_index = NextFrame(sw_index, n)
              /\ \A k \in 0..(n + 1) : AdvanceTimes(Cur(FALSE), k).sw_index \in 0..(n - 1)

\* C24 witness: both sprites on the last frame of a strip of three, after two
\* calls of advance() each from index 0, where the next call wraps to 0
C24_Witness ==
    /\ sheet.framecount = 3 /\ hw_index = 2 /\ sw_index = 2
    /\ HardwareSprite_is_last_frame(Cur(FALSE))
    /\ HardwareSprite_advance(Cur(FALSE)).hw_index = 0
    /\ SoftwareSprite_advance(Cur(FALSE)).sw_index = 0
    /\ AdvanceTimes([Cur(FALSE) EXCEPT !.hw_index = 0, !.sw_index = 0], 2).hw_index = 2

\* the calls made on the plane
PlaneCalls(tr) == Sel(tr, LAMBDA e : e.ev \in {"pan_pos", "pan_size", "apply"})
\* the damage() calls made on the software sprite
SpriteDamage(tr) == Sel(tr, LAMBDA e : e.ev = "damage" /\ e.w = SoftSprite)

\* C25: show_frame(i) with i the current index changes nothing in either
\* variant: no damage from the software sprite, no pan position, pan size or
\* apply from the hardware sprite.  advance() of the software sprite calls
\* damage() exactly when the index changes, once, and never on a strip of one
\* frame that shows its frame.
C25_SameFrameIsNoOp ==
    /\ SoftwareSprite_show_frame(Cur(FALSE), sw_index) = Cur(FALSE)
    /\ HardwareSprite_show_frame(Cur(FALSE), hw_index) = Cur(FALSE)
    /\ \A i \in FrameArgs :
          /\ i # sw_index =>
                Len(SpriteDamage(SoftwareSprite_show_frame(Cur(FALSE), i).trace)) = 1
          /\ i # hw_index =>
                Len(PlaneCalls(HardwareSprite_show_frame(Cur(FALSE), i).trace)) = 3
    /\ LET s == SoftwareSprite_advance(Cur(FALSE))
       IN  /\ Len(SpriteDamage(s.trace)) = IF s.sw_index # sw_index THEN 1 ELSE 0
           /\ s.sw_index = sw_index => s = Cur(FALSE)
           /\ sheet.framecount = 1 /\ sw_index = 0 => s = Cur(FALSE)
    /\ LET h == HardwareSprite_advance(Cur(FALSE))
       IN  sheet.framecount = 1 /\ hw_index = 0 => h = Cur(FALSE)

\* C25 witness: a strip of one frame after three calls: advance() is a no-op
\* on both sprites and no register of the plane was ever applied
C25_Witness ==
    /\ sheet.framecount = 1 /\ nops = 3 /\ sw_index = 0 /\ hw_index = 0
    /\ ~plane.applied
    /\ SoftwareSprite_advance(Cur(FALSE)).trace = << >>
    /\ HardwareSprite_advance(Cur(FALSE)).trace = << >>
    /\ SoftwareSprite_show_frame(Cur(FALSE), 0).trace = << >>

\* the pan position as specified for frame i of a sheet
SpecifiedPan(sh, i) ==
    Point((i * sh.framew) % sh.imagew,
          ((i * sh.framew) \div sh.imagew) * (sh.frameh + sh.framey))
\* the source rect of the pixel copy that draw() makes
DrawnPan(tr) == PointOf(tr[First(tr, LAMBDA e : e.ev = "draw_image")].rect)

\* C26: for every frame index i and every sheet, the pan position written by
\* show_frame of the hardware sprite and used by draw of the software sprite
\* is pan_x = (i*frame_w) mod sheet_w and
\* pan_y = ((i*frame_w) div sheet_w) * (frame_h + base_offset_y).
C26_PanPosition ==
    /\ \A i \in FrameArgs : i # hw_index =>
          PointOf(HardwareSprite_show_frame(Cur(FALSE), i).plane.pan) = SpecifiedPan(sheet, i)
    /\ \A i \in FrameArgs :
          DrawnPan(SoftwareSprite_draw(SoftwareSprite_show_frame(Cur(FALSE), i)).trace)
              = SpecifiedPan(sheet, i)

\* the kinds of the calls recorded, in order
Kinds(tr) == [k \in 1..Len(tr) |-> tr[k].ev]
\* the registers of the plane for frame i: the position show_frame computes
\* for it and the frame's size
PanFor(i) == RectOf(HardwarePan(sheet, i), Size(sheet.framew, sheet.frameh))
\* the call wrote the position, then the size, then applied both, once, and
\* did nothing else: no damage, no pixel copy
WroteThenApplied(s, i) ==
    /\ Kinds(s.trace) = << "pan_pos", "pan_size", "apply" >>
    /\ PointOf(s.trace[1].rect) = PointOf(PanFor(i))
    /\ SizeOf(s.trace[2].rect) = SizeOf(PanFor(i))
    /\ s.trace[3].rect = PanFor(i)
    /\ s.hw_index = i
    /\ s.plane = [pan |-> PanFor(i), shown |-> PanFor(i), applied |-> TRUE]
    /\ s.m_damage = m_damage /\ s.sw_index = sw_index

\* C27: every show_frame(n) and advance() of the hardware sprite that changes
\* the index writes the plane's pan position, then its pan size, then applies
\* them, exactly once and in this order, with no damage and no pixel copy;
\* whatever was applied to the controller is the position of the current
\* frame index.
C27_PanThenApply ==
    /\ plane.applied => plane.shown = PanFor(hw_index) /\ plane.pan = plane.shown
    /\ \A i \in FrameArgs : i # hw_index =>
          WroteThenApplied(HardwareSprite_show_frame(Cur(FALSE), i), i)
    /\ LET s == HardwareSprite_advance(Cur(FALSE))
       IN  IF s.hw_index # hw_index THEN WroteThenApplied(s, s.hw_index)
           ELSE s = Cur(FALSE)

\* C27 witness: frame 5 of a sheet with two rows of three is on the plane,
\* applied, and advance() from there writes and applies frame 0
C27_Witness ==
    /\ sheet.framecount = 6 /\ hw_index = 5
    /\ plane.applied /\ plane.shown = Rect(200, 50, 100, 50)
    /\ HardwareSprite_advance(Cur(FALSE)).plane.shown = Rect(0, 0, 100, 50)
    /\ Len(HardwareSprite_advance(Cur(FALSE)).trace) = 3

\* the draw() calls made, in order
Drawn(tr) == Sel(tr, LAMBDA e : e.ev = "draw")
\* child c of a widget drawn with the child rect clip has to be drawn
ToBeDrawn(c, clip) ==
    /\ ~invisible[c] /\ ~plane_window(c)
    /\ Intersect(m_box[c], clip) /\ ~RectEmpty(Intersection(clip, m_box[c]))

\* C28: draw(rect) draws the children in forward z-order, index 0 first; it
\* draws no child, and so nothing below it, that is invisible, is a plane
\* window or has its box outside the draw rect clipped to the content area;
\* every child drawn gets the intersection of that clipped rect and its own
\* box, a rect that is not empty and lies inside its box; every other child is
\* drawn, once.
C28_DrawOrderAndClip ==
    ~aborted =>
    \A w \in Widgets4 : \A rect \in DrawRects : alive[w] =>
        LET s == call(Cur(FALSE), "draw", w, rect)
            D == Drawn(s.trace)
        IN  /\ ~s.aborted /\ [s EXCEPT !.trace = << >>] = Cur(FALSE)
            /\ Len(D) >= 1 /\ D[1].w = w /\ D[1].rect = rect
            /\ \A k \in 2..Len(D) :
                  LET c == D[k].w
                  IN  /\ m_parent[c] # NoWidget
                      /\ ~invisible[c] /\ ~plane_window(c)
                      /\ ~RectEmpty(D[k].rect) /\ Contains(m_box[c], D[k].rect)
                      /\ \E j \in 1..(k - 1) :
                            /\ D[j].w = m_parent[c]
                            /\ D[k].rect = Intersection(
                                   child_rect(Cur(FALSE), D[j].w, D[j].rect), m_box[c])
            /\ \A j, k \in 1..Len(D) : j < k =>
                  /\ D[j].w # D[k].w
                  /\ (k > 1 /\ m_parent[D[j].w] = m_parent[D[k].w]) =>
                        IndexOf(m_children[m_parent[D[k].w]], D[j].w)
                            < IndexOf(m_children[m_parent[D[k].w]], D[k].w)
            /\ \A j \in 1..Len(D) : \A i \in 1..Len(m_children[D[j].w]) :
                  ToBeDrawn(m_children[D[j].w][i], child_rect(Cur(FALSE), D[j].w, D[j].rect))
                      => \E k \in (j + 1)..Len(D) : D[k].w = m_children[D[j].w][i]

\* C28 witness: a frame with three visible children inside the draw rect, one
\* of them a plane window: the frame and the two others are drawn, in the
\* order of the list
C28_Witness ==
    /\ ~aborted
    /\ \E w \in Widgets4 : \E rect \in DrawRects :
          LET D == Drawn(call(Cur(FALSE), "draw", w, rect).trace)
              ch == m_children[w]
          IN  /\ alive[w] /\ Len(ch) = 3 /\ plane_window(ch[2])
              /\ \A i \in 1..3 : ~invisible[ch[i]] /\ Intersect(m_box[ch[i]], child_rect(Cur(FALSE), w, rect))
              /\ Len(D) = 3 /\ D[1].w = w /\ D[2].w = ch[1] /\ D[3].w = ch[3]

\* w is in no child list
InNoChildList(s, w) == \A p \in Widgets : \A i \in 1..Len(s.m_children[p]) : s.m_children[p][i] # w
\* the frames w can be attached to again once it is detached
Frames(w) == {p \in Widgets : alive[p] /\ p # w /\ w \notin Ancestors(m_parent, p)}

\* C29: detach() of an attached widget is safe between frames and mid-frame:
\* it neither fails nor ends the process, the widget has no parent afterwards
\* and is in no child list, and damage requested on the detached widget
\* reaches no dirty set but that of its own screen, neither at once nor when
\* the widget is attached again.
C29_DetachIsSafe ==
    ~aborted =>
    \A w \in Widgets : (alive[w] /\ m_parent[w] # NoWidget /\ alive[m_parent[w]]) =>
        LET s == detach(Cur(FALSE), w)
        IN  /\ ~s.aborted /\ s.thrown = "none"
            /\ s.m_parent[w] = NoWidget /\ InNoChildList(s, w)
            /\ \A r \in DamageRects :
                  LET d == call(s, "damage", w, r)
                  IN  /\ ~d.aborted
                      /\ \A x \in Widgets : x # w => d.m_damage[x] = s.m_damage[x]
                      /\ ~has_screen(w) => d.m_damage = s.m_damage
                      /\ \A p \in Frames(w) : ~add(s, p, w).aborted =>
                            add(d, p, w).m_damage = add(s, p, w).m_damage

\* the widgets whose parent pointer is p
Attached(s, p) == {c \in DOMAIN s.m_parent : s.m_parent[c] = p}
\* the call came back: no assert failed, nothing was thrown
Succeeded(s) == ~s.aborted /\ s.thrown = "none"
\* no redraw is in flight
BetweenFrames == \A x \in DOMAIN m_in_draw : ~m_in_draw[x]

\* C30: after any sequence of add, remove and remove_all on frames, whenever
\* no operation has failed, count_children() of a frame is the number of
\* widgets attached to it; add of an unattached widget succeeds and raises
\* the count by one; remove of an attached child succeeds, lowers the count by
\* one and clears the child's parent; remove_all succeeds and leaves no child
\* and no widget attached; and a widget can be added to the empty frame again.
C30_CountTracksChildren ==
    (~aborted /\ BetweenFrames) =>
    \A p \in DOMAIN alive : alive[p] =>
        LET n == count_children(Cur(FALSE), p)
            e == remove_all(Cur(FALSE), p)
        IN  /\ n = Cardinality(Attached(Cur(FALSE), p))
            /\ \A c \in Addable(p) :
                  LET s == add(Cur(FALSE), p, c)
                  IN  /\ Succeeded(s) /\ count_children(s, p) = n + 1
                      /\ Attached(s, p) = Attached(Cur(FALSE), p) \cup {c}
            /\ \A i \in 1..n :
                  LET s == remove(Cur(FALSE), p, m_children[p][i])
                  IN  /\ Succeeded(s) /\ count_children(s, p) = n - 1
                      /\ s.m_parent[m_children[p][i]] = NoWidget
                      /\ Attached(s, p) = Attached(Cur(FALSE), p) \ {m_children[p][i]}
            /\ Succeeded(e) /\ count_children(e, p) = 0 /\ Attached(e, p) = {}
            /\ \A c \in Attached(Cur(FALSE), p) \cup Addable(p) :
                  /\ Succeeded(add(e, p, c))
                  /\ count_children(add(e, p, c), p) = 1

\* C30 witness: a frame with three children, where remove_all leaves none and
\* a former child is added again
C30_Witness ==
    /\ ~aborted
    /\ \E p \in DOMAIN alive :
          /\ alive[p] /\ count_children(Cur(FALSE), p) = 3
          /\ Cardinality(Attached(Cur(FALSE), p)) = 3
          /\ count_children(remove(Cur(FALSE), p, m_children[p][2]), p) = 2
          /\ count_children(remove_all(Cur(FALSE), p), p) = 0
          /\ count_children(add(remove_all(Cur(FALSE), p), p, m_children[p][1]), p) = 1

\* the boolean flags that have a setter, and for each the field that stores
\* it, the stored value a setter argument stands for, and the setter call
FlagKinds == {"visible", "active", "checked", "readonly", "disabled",
              "grab_mouse", "no_layout", "autoresize"}
VisualKinds == {"visible", "active", "checked", "readonly", "disabled"}
FlagField(k) == CASE k = "visible" -> "invisible"
                  [] k = "autoresize" -> "no_autoresize"
                  [] OTHER -> k
FlagStored(k, v) == IF k \in {"visible", "autoresize"} THEN ~v ELSE v
Setter(k, s, w, v) ==
    CASE k = "visible" -> set_visible(s, w, v)
      [] k = "active" -> active_set(s, w, v)
      [] k = "checked" -> set_checked(s, w, v)
      [] k = "readonly" -> set_readonly(s, w, v)
      [] k = "disabled" -> (IF v THEN disable(s, w) ELSE enable(s, w))
      [] k = "grab_mouse" -> set_grab_mouse(s, w, v)
      [] k = "no_layout" -> set_no_layout(s, w, v)
      [] k = "autoresize" -> autoresize(s, w, v)
FlagsOf(s) == [f \in {FlagField(k) : k \in FlagKinds} |-> s[f]]
\* damage was called on w with its box as it is now
DamagesBox(tr, w) ==
    \E i \in 1..Len(tr) : tr[i].ev = "damage" /\ tr[i].w = w /\ tr[i].rect = m_box[w]

\* C31: a flag setter called with the value the flag has leaves the whole
\* state as it is and makes no call (no damage, no layout); called with the
\* other value it stores that value in its own flag, leaves every other flag
\* of every widget as it was, and for visible, active, checked, readonly and
\* disable/enable it calls damage on the widget with the widget's box.
C31_FlagSetters ==
    ~aborted =>
    \A w \in DOMAIN alive : \A k \in FlagKinds : \A v \in BOOLEAN : alive[w] =>
        LET s == Setter(k, Cur(FALSE), w, v)
        IN  IF Cur(FALSE)[FlagField(k)][w] = FlagStored(k, v)
            THEN s = Cur(FALSE)
            ELSE /\ ~s.aborted
                 /\ s[FlagField(k)][w] = FlagStored(k, v)
                 /\ \A f \in DOMAIN FlagsOf(s) : \A x \in DOMAIN alive :
                       (f # FlagField(k) \/ x # w) => s[f][x] = Cur(FALSE)[f][x]
                 /\ k \in VisualKinds => DamagesBox(s.trace, w)

\* C31 witness: a checked, visible child of the window; checked(true) is a
\* no-op, checked(false) clears the flag and its damage reaches the window
C31_Witness ==
    /\ ~aborted
    /\ \E w \in DOMAIN alive :
          /\ alive[w] /\ checked[w] /\ ~invisible[w] /\ m_parent[w] = 1 /\ ~invisible[1]
          /\ set_checked(Cur(FALSE), w, TRUE) = Cur(FALSE)
          /\ ~set_checked(Cur(FALSE), w, FALSE).checked[w]
          /\ DamagesBox(set_checked(Cur(FALSE), w, FALSE).trace, w)
          /\ \E i \in 1..Len(set_checked(Cur(FALSE), w, FALSE).trace) :
                set_checked(Cur(FALSE), w, FALSE).trace[i].ev = "merge"

ColorIds == {"bg", "text"}
GroupIds == {"normal", "disabled", "active", "checked"}
\* the widget's own palette has an entry for (id, group)
HasEntry(x, id, group) ==
    m_palette[x].set /\ \E e \in m_palette[x].colors : e[1] = id /\ e[2] = group
\* the widgets from w up to its root that satisfy H, and the nearest of them
HoldersOf(w, H(_)) == {x \in {w} \cup Ancestors(m_parent, w) : H(x)}
Nearest(w, H(_)) ==
    CHOOSE x \in HoldersOf(w, H) : HoldersOf(w, H) \subseteq {x} \cup Ancestors(m_parent, x)
\* the state group of a widget, first matching state wins
StateGroup(w) ==
    CASE disabled[w] -> "disabled"
      [] ~disabled[w] /\ active[w] -> "active"
      [] ~disabled[w] /\ ~active[w] /\ checked[w] -> "checked"
      [] OTHER -> "normal"

\* C32: in a tree of live widgets color(id, group) is the entry for (id,
\* group) of the nearest widget, from the widget itself up its parent chain,
\* whose own palette has one; where none has, it is the global palette's
\* colour if a global palette is set and the theme's otherwise.  color(id)
\* is color(id, group) for the group disabled, else active, else checked,
\* else normal.  font() is the font of the nearest widget up the chain that
\* has one of its own, else the global font if set, else the theme's.  None
\* of them fails.
C32_ColorResolution ==
    ~aborted =>
    \A w \in DOMAIN alive : (alive[w] /\ ChainAlive(w)) =>
        /\ \A id \in ColorIds :
              /\ color(Cur(FALSE), w, id) = color_group(Cur(FALSE), w, id, StateGroup(w))
              /\ \A g \in GroupIds :
                    color_group(Cur(FALSE), w, id, g) =
                       IF HoldersOf(w, LAMBDA x : HasEntry(x, id, g)) # {}
                       THEN (CHOOSE e \in m_palette[Nearest(w, LAMBDA x : HasEntry(x, id, g))].colors :
                                e[1] = id /\ e[2] = g)[3]
                       ELSE IF global_palette THEN <<"global", id, g>>
                       ELSE <<"theme", id, g>>
        /\ font(Cur(FALSE), w) =
              IF HoldersOf(w, LAMBDA x : m_font[x]) # {}
              THEN <<"font", Nearest(w, LAMBDA x : m_font[x])>>
              ELSE IF global_font THEN <<"global">>
              ELSE <<"theme">>

\* C32 witness: an active widget with no palette of its own under a parent
\* whose palette has an entry for (bg, active): color(bg) is the parent's
\* entry, and for the group checked, where no widget has one, the theme's
C32_Witness ==
    /\ ~aborted /\ ~global_palette
    /\ \E w, x \in DOMAIN alive :
          /\ alive[w] /\ alive[x] /\ m_parent[w] = x
          /\ active[w] /\ ~disabled[w] /\ ~m_palette[w].set
          /\ HasEntry(x, "bg", "active")
          /\ color(Cur(FALSE), w, "bg") = <<"red">>
          /\ color_group(Cur(FALSE), w, "bg", "checked") = <<"theme", "bg", "checked">>

\* ranks handed to zorder(widget, rank): every index and two past the end
Ranks == 0..4
\* seq with x put in at index pos
InsertedAt(seq, pos, x) == SubSeq(seq, 1, pos - 1) \o << x >> \o SubSeq(seq, pos, Len(seq))

\* C35: zorder(w, rank) on the k-th child w of a frame with N children puts
\* w at index min(rank, N-1) and leaves the other children in their order,
\* none added and none dropped, and every other child list alone; the frame
\* is laid out once when w's index changed and the call does nothing at all
\* when it did not; zorder(rank) on w itself does the same through its
\* parent; and zorder(x, rank) for an x that is no child of the frame changes
\* nothing.
C35_ZorderRank ==
    ~aborted =>
    \A p \in DOMAIN alive : \A rank \in Ranks : alive[p] =>
        /\ \A k \in 1..Len(m_children[p]) :
              LET ch == m_children[p][k]
                  to == IF rank < Len(m_children[p]) - 1 THEN rank ELSE Len(m_children[p]) - 1
                  s == zorder_rank_child(Cur(FALSE), p, ch, rank)
              IN  ~s.aborted =>
                  /\ s.m_children =
                        [m_children EXCEPT ![p] = InsertedAt(Without(@, k), to + 1, ch)]
                  /\ zorder(s, ch) = to
                  /\ Without(s.m_children[p], to + 1) = Without(m_children[p], k)
                  /\ zorder_rank(Cur(FALSE), ch, rank) = s
                  /\ to # k - 1 /\ CanLayOut(p) => LayoutsOf(s.trace, p) = 1
                  /\ to = k - 1 => s = Cur(FALSE)
        /\ \A x \in DOMAIN alive :
              IndexOf(m_children[p], x) = 0 =>
                  zorder_rank_child(Cur(FALSE), p, x, rank) = Cur(FALSE)

\* C35 witness: three children; the bottom one goes to rank 1 and to a rank
\* past the end, the top one goes down to rank 0, each with one layout
C35_Witness ==
    /\ ~aborted
    /\ \E p \in DOMAIN alive :
          /\ alive[p] /\ Len(m_children[p]) = 3 /\ CanLayOut(p)
          /\ zorder_rank_child(Cur(FALSE), p, m_children[p][1], 1).m_children[p] =
                << m_children[p][2], m_children[p][1], m_children[p][3] >>
          /\ zorder_rank_child(Cur(FALSE), p, m_children[p][1], 4).m_children[p] =
                << m_children[p][2], m_children[p][3], m_children[p][1] >>
          /\ zorder_rank_child(Cur(FALSE), p, m_children[p][3], 0).m_children[p] =
                << m_children[p][3], m_children[p][1], m_children[p][2] >>
          /\ LayoutsOf(zorder_rank_child(Cur(FALSE), p, m_children[p][3], 0).trace, p) = 1

\* the state in which widget x is in the middle of its layout pass
MidLayout(x) == [Cur(FALSE) EXCEPT !.m_in_layout[x] = TRUE]
\* the box of w was set to r during the call
BoxSet(tr, w, r) ==
    \E i \in 1..Len(tr) : tr[i].ev = "geometry" /\ tr[i].w = w /\ tr[i].rect = r
\* the user-requested boxes after the call, but for the one of w
OthersKept(s, w) ==
    \A x \in DOMAIN alive : x # w => s.m_user_requested_box[x] = m_user_requested_box[x]

\* C33: a move to another point while the parent is mid-layout, and a resize
\* to another size while the parent or the widget itself is mid-layout, set
\* the widget's box and leave every user-requested box as it was; a whole
\* layout pass of any widget leaves every user-requested box as it was; a
\* move or resize to another value outside any layout pass stores the point
\* or the size in the widget's user-requested box, leaves the other half of
\* it and every other widget's user-requested box alone, and the stored
\* value is still there when the call returns, whatever the parent's layout
\* pass made of the widget's box.
C33_UserBoxKept ==
    ~aborted =>
    \A w \in DOMAIN alive : (alive[w] /\ ChainAlive(w)) =>
        /\ layout(Cur(FALSE), w).m_user_requested_box = m_user_requested_box
        /\ \A p \in Points : p # PointOf(m_box[w]) =>
              /\ LET s == move(Cur(FALSE), w, p)
                 IN  ~s.aborted =>
                     /\ s.m_user_requested_box[w] = RectOf(p, SizeOf(m_user_requested_box[w]))
                     /\ OthersKept(s, w)
              /\ m_parent[w] # NoWidget =>
                    LET s == move(MidLayout(m_parent[w]), w, p)
                    IN  ~s.aborted =>
                        /\ s.m_box[w] = RectOf(p, SizeOf(m_box[w]))
                        /\ s.m_user_requested_box = m_user_requested_box
        /\ \A sz \in Sizes : sz # SizeOf(m_box[w]) =>
              /\ LET s == resize(Cur(FALSE), w, sz)
                 IN  ~s.aborted =>
                     /\ s.m_user_requested_box[w] = RectOf(PointOf(m_user_requested_box[w]), sz)
                     /\ OthersKept(s, w)
              /\ \A x \in {w, m_parent[w]} \ {NoWidget} :
                    LET s == resize(MidLayout(x), w, sz)
                    IN  ~s.aborted =>
                        /\ BoxSet(s.trace, w, RectOf(PointOf(m_box[w]), sz))
                        /\ s.m_user_requested_box = m_user_requested_box

\* C33 witness: a widget aligned by its parent; a move made from outside is
\* undone by the parent's layout pass, the box is where the pass put it and
\* the user-requested box holds the point asked for; the same move made
\* while the parent is mid-layout leaves the user-requested box alone
C33_Witness ==
    /\ ~aborted
    /\ \E w \in DOMAIN alive : \E p \in Points :
          /\ alive[w] /\ m_parent[w] # NoWidget /\ alive[m_parent[w]]
          /\ p # PointOf(m_box[w]) /\ p # PointOf(m_user_requested_box[w])
          /\ ~move(Cur(FALSE), w, p).aborted
          /\ PointOf(move(Cur(FALSE), w, p).m_box[w]) # p
          /\ PointOf(move(Cur(FALSE), w, p).m_user_requested_box[w]) = p
          /\ move(MidLayout(m_parent[w]), w, p).m_user_requested_box[w] =
                m_user_requested_box[w]
          /\ PointOf(move(MidLayout(m_parent[w]), w, p).m_box[w]) = p

\* C34: no live widget's parent pointer refers to a destroyed widget, so no
\* damage, colour, font, coordinate or z-order call on a live widget follows
\* a pointer to a destroyed parent: damage on it reads no destroyed widget.
C34_NoDanglingParent ==
    ~aborted =>
    \A w \in DOMAIN alive : alive[w] =>
        /\ m_parent[w] # NoWidget => alive[m_parent[w]]
        /\ ~damage_box(Cur(FALSE), w).ub

\* how often the box of w was set during the call, and how often w called
\* parent_layout()
Changes(tr, w) == Count(tr, LAMBDA e : e.ev = "geometry" /\ e.w = w)
ParentLayouts(tr, w) == Count(tr, LAMBDA e : e.ev = "parent_layout" /\ e.w = w)
\* the call put nothing into any dirty set
NoDirt(s) == s.m_damage = m_damage /\ \A i \in 1..Len(s.trace) : s.trace[i].ev # "merge"
\* alignments handed to align
Aligns == {{}, {"center"}, {"expand"}}
\* what C36 says of one call on w that has returned with s
QuietWhenHidden(s, w) ==
    ~s.aborted =>
    /\ (invisible[w] \/ no_layout[w]) /\ m_parent[w] # NoWidget =>
          LayoutsOf(s.trace, m_parent[w]) = 0
    /\ invisible[w] => NoDirt(s)
OnePassOfParent(s, w) ==
    (~s.aborted /\ ~invisible[w] /\ ~no_layout[w] /\ m_parent[w] # NoWidget) =>
    /\ ParentLayouts(s.trace, w) = Changes(s.trace, w)
    /\ LayoutsOf(s.trace, m_parent[w]) = IF CanLayOut(m_parent[w]) THEN 1 ELSE 0

\* C36: move, resize, box and align on a widget that is invisible or has
\* no_layout set start no layout pass of its parent, and on an invisible
\* widget they put nothing into any dirty set; a move to another point or a
\* resize to another size of a visible widget without no_layout that has a
\* parent calls parent_layout() once for every time the widget's box is set
\* during the call, and exactly one layout pass of the parent runs (none
\* when the parent is invisible or empty, where layout() returns at once).
C36_ParentLayoutGate ==
    ~aborted =>
    \A w \in DOMAIN alive : (alive[w] /\ ChainAlive(w)) =>
        /\ \A p \in Points :
              /\ QuietWhenHidden(move(Cur(FALSE), w, p), w)
              /\ p # PointOf(m_box[w]) => OnePassOfParent(move(Cur(FALSE), w, p), w)
              /\ \A sz \in Sizes : QuietWhenHidden(box(Cur(FALSE), w, RectOf(p, sz)), w)
        /\ \A sz \in Sizes :
              /\ QuietWhenHidden(resize(Cur(FALSE), w, sz), w)
              /\ sz # SizeOf(m_box[w]) => OnePassOfParent(resize(Cur(FALSE), w, sz), w)
        /\ \A a \in Aligns : QuietWhenHidden(align(Cur(FALSE), w, a), w)

\* C36 witness: a visible child whose move is answered by one layout pass
\* of its parent that puts it back, and a child that is invisible or has
\* no_layout set whose move changes its box with no pass of the parent
C36_Witness ==
    /\ ~aborted
    /\ \E w, x \in DOMAIN alive : \E p \in Points :
          /\ alive[w] /\ alive[x] /\ m_parent[w] # NoWidget /\ m_parent[x] # NoWidget
          /\ ~invisible[w] /\ ~no_layout[w] /\ CanLayOut(m_parent[w])
          /\ ~move(Cur(FALSE), w, p).aborted
          /\ LayoutsOf(move(Cur(FALSE), w, p).trace, m_parent[w]) = 1
          /\ Changes(move(Cur(FALSE), w, p).trace, w) = 2
          /\ ParentLayouts(move(Cur(FALSE), w, p).trace, w) = 2
          /\ invisible[x] \/ no_layout[x]
          /\ CanLayOut(m_parent[x])
          /\ PointOf(move(Cur(FALSE), x, p).m_box[x]) = p /\ p # PointOf(m_box[x])
          /\ LayoutsOf(move(Cur(FALSE), x, p).trace, m_parent[x]) = 0

====
